---- MODULE Spec2Model ----
(***************************************************************************)
(* A model of the mcp-ambari server core: the permission model, the        *)
(* Template Method executor (Executor.Run), the operation registry, the    *)
(* path a tool call takes from a transport through the auth middleware to  *)
(* the executor, the life of the transports, the certificate package, the  *)
(* retry loop of the Ambari client and the startup of main.                *)
(*                                                                         *)
(* Specifications:                                                         *)
(*   Spec          concurrent Executor.Run invocations with a concurrent   *)
(*                 registry lookup (Registry.Get)                          *)
(*   SpecServer    tool calls arriving over a transport: Middleware.Handler*)
(*                 then the tool handler of registerMCPTool, then Run      *)
(*   SpecRegistry  concurrent Register / Get / All / ReadOnlyOps /         *)
(*                 ActionableOps / Count / Definitions under the RWMutex   *)
(*   SpecPerm      AuthContext.HasAllPermissions applied to drawn inputs   *)
(*   SpecAuth      LDAPProvider.Authenticate applied to drawn header maps  *)
(*   SpecTransport main from Factory and Start to shutdown, with the tool  *)
(*                 calls served in between                                 *)
(*   SpecLifecycle the start, the connections and the shutdown alone, with *)
(*                 the goroutines scheduled fairly                         *)
(*   SpecCerts     the certs package: GenerateCA, GenerateCertificate,     *)
(*                 the files, LoadCA and the CertManager                   *)
(*   SpecClock     one Executor.Run under the two clocks of the process    *)
(*   SpecClient    one doRequest call of the Ambari client: attempts,      *)
(*                 backoff and the cancellation of its context             *)
(*   SpecClientFair  the same with the goroutine and the timers scheduled  *)
(*   SpecMain      the startup of main: what it registers and offers as    *)
(*                 tools under each value of ENABLE_ACTIONABLE_TOOLS       *)
(*   SpecValidation  Validate then Execute of a capability on drawn        *)
(*                 argument maps                                           *)
(*   SpecSnapshots SpecRegistry with callers that write to the slices the  *)
(*                 registry returned                                       *)
(***************************************************************************)
EXTENDS Integers, Sequences, FiniteSets, TLC

(***************************************************************************)
(* Bounds of the model.                                                    *)
(***************************************************************************)
\* number of concurrent Executor.Run invocations (goroutines)
NumInv == 2
\* number of goroutines using the registry concurrently
NumProcs == 2
\* longest permission slice drawn as an input of HasAllPermissions
MaxPermLen == 2
\* longest group header (in tokens) drawn as an input of Authenticate
MaxHeaderLen == 3
\* number of keys rsa.GenerateKey may generate in one run of the model
MaxKeys == 2
\* readings of the clocks in a second: the clocks are read in ticks
TicksPerSecond == 2
\* the last tick of the clocks
MaxTime == 4
\* the largest Config.Retries of a client (main configures 3)
MaxRetries == 3
\* the step of the backoff of doRequest, in milliseconds
BackoffStep == 100

Invs == 1..NumInv
Procs == 1..NumProcs
\* every request is served on a goroutine of its own, which runs its invocation
Reqs == Invs

VARIABLES
    \* --- Executor.Run invocations ---
    pc,        \* [Invs -> position of the invocation inside Run]
    call,      \* [Invs -> the arguments of the Run call: op, args, authCtx]
    result,    \* [Invs -> the *OperationResult returned]
    err,       \* [Invs -> the error returned]
    calls,     \* [Invs -> the delegate's record: how often its Validate and its
               \*          Execute ran, and what its Execute returned]
    steps,     \* [Invs -> the lifecycle steps entered so far, in order]
    start,     \* [Invs -> Run's local start: the readings time.Now() took]
    \* --- the Registry and the goroutines that use it ---
    ops,         \* Registry.ops: name -> Operation (a function on the names held)
    readonly,    \* Registry.readonly: slice of operations
    actionable,  \* Registry.actionable: slice of operations
    mu,          \* Registry.mu: [writer: the goroutine holding Lock or 0,
                 \*               readers: the goroutines holding RLock]
    rpc,         \* [Procs -> position of the goroutine inside its registry call]
    rcall,       \* [Procs -> the call in progress: kind, op, name]
    rret,        \* [Procs -> what the call returns]
    registered,  \* [name -> how many Register calls of that name inserted it]
    \* --- the server: transport, middleware, tool handler ---
    mode,        \* transport.Config.Mode
    mwEnabled,   \* Middleware.enabled
    req,         \* [Reqs -> the request: where it is, its headers, the identity
                 \*          in its context, the HTTP status written]
    \* --- HasAllPermissions applied to drawn inputs ---
    permIn,      \* the identity's permission slice
    reqIn,       \* the required permissions
    permDone,    \* whether HasAllPermissions has been applied
    hasAllOut,   \* what it returned
    \* --- LDAPProvider.Authenticate applied to drawn inputs ---
    authIn,      \* the header map
    authDone,    \* whether Authenticate has been applied
    authOut,     \* what it returned: [ctx, err]
    \* --- the life of the transport: main, Factory, Start, shutdown ---
    fault,       \* what is wrong in the environment of Start, if anything
    phase,       \* where main is: in Factory, in a step of Start, serving, ...
    closed,      \* whether server.Close() has been called
    startErr,    \* the error Factory or Start returned to main
    cancelled,   \* whether ctx has been cancelled
    conn,        \* [Reqs -> the connection: the client certificate it presents
                 \*          and where the connection is]
    \* --- the certs package: CAs, leaves and the files ---
    nkeys,       \* how many keys rsa.GenerateKey has generated in this run
    cas,         \* the CAResults GenerateCA returned
    loaded,      \* the CAResults LoadCA returned
    issued,      \* the leaves issued: the CertResult and how it was made
    files,       \* [Paths -> the file at the path]
    last,        \* the last call of the package: [op, err]
    \* --- the clocks of the process ---
    mono,        \* the monotonic clock, in ticks
    wall,        \* the wall clock, in ticks since the epoch of the model
    adjusted,    \* whether the wall clock has been set back
    \* --- one doRequest call of the Ambari client ---
    retries,     \* ambariClient.retries
    method,      \* the HTTP method doRequest was called with
    cpc,         \* where doRequest is: idle, execute, backoff, done
    attempt,     \* the loop variable of doRequest
    outcomes,    \* how the calls of execute made so far ended, in order
    lastErr,     \* the local lastErr
    waits,       \* the backoff delays started so far, in milliseconds
    ctxDone,     \* whether ctx has been cancelled
    woken,       \* which channel of the select of the backoff became ready
                 \* first: none yet, the timer, or ctx.Done()
    cret,        \* what doRequest returned: [result, err]
    \* --- the startup of main ---
    environ,     \* os.Getenv("ENABLE_ACTIONABLE_TOOLS"): "" when it is unset
    mpc,         \* where main is: readonly, env, actionable, count, tools,
                 \* serving, fatal
    mnext,       \* the index of the range loop main is in
    pending,     \* what is left of the slice registry.All() returned
    tools,       \* the names of the tools added to the MCP server
    \* --- one capability applied to one argument map ---
    vop,         \* the capability
    vargs,       \* the argument map: [key -> the kind of value it holds]
    vpc,         \* idle, drawn, validated, executed
    vout         \* [err: what Validate returned, exec: how Execute ended]

execVars == <<pc, call, result, err, calls, steps, start>>
regVars == <<ops, readonly, actionable, mu, rpc, rcall, rret, registered>>
srvVars == <<mode, mwEnabled, req>>
permVars == <<permIn, reqIn, permDone, hasAllOut>>
authVars == <<authIn, authDone, authOut>>
lifeVars == <<fault, phase, closed, startErr, cancelled, conn>>
pkiVars == <<nkeys, cas, loaded, issued, files, last>>
clockVars == <<mono, wall, adjusted>>
clientVars ==
    <<retries, method, cpc, attempt, outcomes, lastErr, waits, ctxDone, woken,
      cret>>
mainVars == <<environ, mpc, mnext, pending, tools>>
valVars == <<vop, vargs, vpc, vout>>
vars ==
    <<execVars, regVars, srvVars, permVars, authVars, lifeVars, pkiVars,
      clockVars, clientVars, mainVars, valVars>>

\* what the actions of one part leave alone
notExec ==
    <<regVars, srvVars, permVars, authVars, lifeVars, pkiVars, clockVars, clientVars,
      mainVars, valVars>>
notReg ==
    <<execVars, srvVars, permVars, authVars, lifeVars, pkiVars, clockVars, clientVars,
      mainVars, valVars>>
notSrv ==
    <<regVars, permVars, authVars, lifeVars, pkiVars, clockVars, clientVars,
      mainVars, valVars>>
notPerm ==
    <<execVars, regVars, srvVars, authVars, lifeVars, pkiVars, clockVars, clientVars,
      mainVars, valVars>>
notAuth ==
    <<execVars, regVars, srvVars, permVars, lifeVars, pkiVars, clockVars, clientVars,
      mainVars, valVars>>
notLife ==
    <<execVars, regVars, srvVars, permVars, authVars, pkiVars, clockVars, clientVars,
      mainVars, valVars>>
notPki ==
    <<execVars, regVars, srvVars, permVars, authVars, lifeVars, clockVars, clientVars,
      mainVars, valVars>>
notClock ==
    <<execVars, regVars, srvVars, permVars, authVars, lifeVars, pkiVars, clientVars,
      mainVars, valVars>>
notClient ==
    <<execVars, regVars, srvVars, permVars, authVars, lifeVars, pkiVars, clockVars,
      mainVars, valVars>>
notMain ==
    <<execVars, srvVars, permVars, authVars, lifeVars, pkiVars, clockVars,
      clientVars, valVars>>
notVal ==
    <<execVars, regVars, srvVars, permVars, authVars, lifeVars, pkiVars,
      clockVars, clientVars, mainVars>>

\* the absent value: a nil pointer, a nil error, a missing map entry
Nil == "nil"

(***************************************************************************)
(* auth: permissions and the AuthContext                                   *)
(***************************************************************************)
ClusterView == "cluster:view"
ClusterAdmin == "cluster:admin"
ServiceView == "service:view"
ServiceOperate == "service:operate"
ServiceRestart == "service:restart"
ServiceAdmin == "service:admin"
HostView == "host:view"
HostManage == "host:manage"
AlertView == "alert:view"
AlertManage == "alert:manage"
AlertAdmin == "alert:admin"
ConfigView == "config:view"
ConfigModify == "config:modify"

\* PermissionGroups: group name -> permission slice
PermissionGroups ==
    [ADMIN |-> <<ClusterView, ClusterAdmin, ServiceView, ServiceOperate,
                 ServiceRestart, ServiceAdmin, HostView, HostManage, AlertView,
                 AlertManage, AlertAdmin, ConfigView, ConfigModify>>,
     OPERATOR |-> <<ClusterView, ServiceView, ServiceOperate, ServiceRestart,
                    HostView, AlertView, AlertManage, ConfigView>>,
     VIEWER |-> <<ClusterView, ServiceView, HostView, AlertView, ConfigView>>]

\* the elements of a slice
Range(s) == {s[k] : k \in 1..Len(s)}

\* AuthContext.HasPermission: the loop over a.Permissions, first match returns
RECURSIVE HasPermission(_, _)
HasPermission(perms, perm) ==
    IF perms = <<>> THEN FALSE
    ELSE IF Head(perms) = perm THEN TRUE
    ELSE HasPermission(Tail(perms), perm)

\* a plausible slip: "has any" instead of "has all"
HasAnyPermissions(perms, required) ==
    required = <<>> \/ \E k \in 1..Len(required) : HasPermission(perms, required[k])

\* AuthContext.HasAllPermissions: the loop over perms, first miss returns false
RECURSIVE HasAllPermissions(_, _)
HasAllPermissions(perms, required) ==
    IF required = <<>> THEN TRUE
    ELSE IF ~HasPermission(perms, Head(required)) THEN FALSE
    ELSE HasAllPermissions(perms, Tail(required))

\* an AuthContext value (the Headers map is carried by LDAP identities only)
AuthContext(username, groups, perms, validated, source) ==
    [Username |-> username, Groups |-> groups, Permissions |-> perms,
     IsValidated |-> validated, Source |-> source]

(***************************************************************************)
(* operations: the Operation interface and the Executor                    *)
(***************************************************************************)
ReadOnly == "readonly"
Actionable == "actionable"

\* An Operation as the executor sees it: Name(), Type(), RequiredPermissions()
\* and the argument keys its Validate requires.
Operation(name, type, perms, args) ==
    [Name |-> name, Type |-> type, Permissions |-> perms, Required |-> args]

\* Delegates the executor is run with: one per shape of RequiredPermissions
\* (none, one, several) and both operation types.  OpRestart is the shipped
\* RestartService; OpOpen and OpMulti are implementations of the Operation
\* interface with the two shapes no shipped operation has (every shipped
\* operation requires exactly one permission).
OpOpen == Operation("op_without_permissions", ReadOnly, <<>>, {})
OpRestart == Operation("ambari_services_restartservice", Actionable,
                       <<ServiceRestart>>, {"clusterName"})
OpMulti == Operation("op_with_two_permissions", Actionable,
                     <<ServiceView, ServiceRestart>>, {"clusterName"})
Delegates == {OpOpen, OpRestart, OpMulti}

\* argument maps, as the set of keys that hold a string
ArgMaps == SUBSET {"clusterName"}

\* identities Run is called with
IdViewer == AuthContext("viewer", <<"bigdata-viewers">>, <<ServiceView>>, TRUE, "LDAP")
IdStdio == AuthContext("stdio-user", <<"ambari-admins">>, PermissionGroups.ADMIN,
                       TRUE, "stdio")
Identities == {IdViewer, IdStdio}

\* nil values, as records of the shape of the value they stand for
NoOp == Operation(Nil, Nil, <<>>, {})
NoAuth == AuthContext(Nil, <<>>, <<>>, FALSE, Nil)
NoError == [msg |-> Nil, capability |-> Nil, requires |-> <<>>, cause |-> Nil]
NoResult ==
    [Tool |-> Nil, OperationType |-> Nil, ExecutionMs |-> 0, Timestamp |-> 0,
     Result |-> Nil]
\* time.Now(): a reading of both clocks
NoInstant == [mono |-> 0, wall |-> 0, adjusted |-> FALSE]
\* with it, whether the wall clock had been set back by then
Now == [mono |-> mono, wall |-> wall, adjusted |-> adjusted]
\* time.Since(t): t carries a monotonic reading, which the difference uses
SinceWallClock(t) == wall - t.wall
Since(t) == mono - t.mono
\* Duration.Milliseconds()
Milliseconds(d) == (d * 1000) \div TicksPerSecond
\* Time.UTC().Format(time.RFC3339): the layout has no fraction of a second,
\* the text names the second the wall clock reading falls in
FormatRFC3339(w) == w \div TicksPerSecond
\* time.Parse(time.RFC3339, text): the instant the text names, in ticks
ParseRFC3339(text) == text * TicksPerSecond
\* the OperationResult Run builds in step 5
OperationResult(op, t) ==
    [Tool |-> op.Name, OperationType |-> op.Type,
     ExecutionMs |-> Milliseconds(Since(t)), Timestamp |-> FormatRFC3339(wall),
     Result |-> "payload"]
NoCall == [op |-> NoOp, args |-> {}, authCtx |-> NoAuth]

\* err != nil
IsError(e) == e.msg # Nil

ExecInit ==
    /\ pc = [i \in Invs |-> "idle"]
    /\ call = [i \in Invs |-> NoCall]
    /\ result = [i \in Invs |-> NoResult]
    /\ err = [i \in Invs |-> NoError]
    /\ calls = [i \in Invs |-> [validate |-> 0, execute |-> 0, returned |-> Nil]]
    /\ steps = [i \in Invs |-> <<>>]
    /\ start = [i \in Invs |-> NoInstant]

\* the delegate's Validate: every required key must hold a string; the error
\* names the key that does not
Validate(op, args) ==
    IF op.Required \subseteq args THEN Nil
    ELSE CHOOSE k \in op.Required : k \notin args

\* a plausible slip: only the first required permission is checked
checkPermissionsFirst(op, authCtx) ==
    LET required == op.Permissions IN
    IF Len(required) = 0 THEN NoError
    ELSE IF ~HasPermission(authCtx.Permissions, Head(required))
    THEN [msg |-> "insufficient permissions", capability |-> op.Name,
          requires |-> required, cause |-> Nil]
    ELSE NoError

\* a plausible change: the error lists only the permissions the identity lacks
checkPermissionsMissing(op, authCtx) ==
    LET required == op.Permissions IN
    IF Len(required) = 0 THEN NoError
    ELSE IF ~HasAllPermissions(authCtx.Permissions, required)
    THEN [msg |-> "insufficient permissions", capability |-> op.Name,
          requires |-> SelectSeq(required,
                                 LAMBDA q : ~HasPermission(authCtx.Permissions, q)),
          cause |-> Nil]
    ELSE NoError

\* Executor.checkPermissions
checkPermissions(op, authCtx) ==
    LET required == op.Permissions IN
    IF Len(required) = 0 THEN NoError
    ELSE IF ~HasAllPermissions(authCtx.Permissions, required)
    THEN [msg |-> "insufficient permissions", capability |-> op.Name,
          requires |-> required, cause |-> Nil]
    ELSE NoError

\* Run, step 1: the call and the authorization check
RunCall(i, op, args, authCtx) ==
    /\ pc[i] = "idle"
    /\ start' = [start EXCEPT ![i] = Now]
    /\ call' = [call EXCEPT ![i] = [op |-> op, args |-> args, authCtx |-> authCtx]]
    /\ steps' = [steps EXCEPT ![i] = Append(@, "Authorize")]
    /\ LET e == checkPermissions(op, authCtx) IN
       IF IsError(e)
       THEN /\ err' = [err EXCEPT ![i] = e]
            /\ pc' = [pc EXCEPT ![i] = "done"]
       ELSE /\ pc' = [pc EXCEPT ![i] = "validate"]
            /\ UNCHANGED err
    /\ UNCHANGED <<result, calls>>

\* Run called directly, with any delegate, argument map and identity
RunAuthorize(i, op, args, authCtx) ==
    /\ RunCall(i, op, args, authCtx)
    /\ UNCHANGED notExec

\* a plausible slip: the validation error is recorded but Run goes on
RunValidateNoReturn(i) ==
    /\ pc[i] = "validate"
    /\ calls' = [calls EXCEPT ![i].validate = @ + 1]
    /\ steps' = [steps EXCEPT ![i] = Append(@, "Validate")]
    /\ LET e == Validate(call[i].op, call[i].args) IN
       err' = [err EXCEPT ![i] =
                 IF e # Nil
                 THEN [msg |-> "validation failed", capability |-> call[i].op.Name,
                       requires |-> <<>>, cause |-> e]
                 ELSE @]
    /\ pc' = [pc EXCEPT ![i] = "execute"]
    /\ UNCHANGED <<call, start, result, notExec>>

\* Run, steps 2 and 3: (the log line for an actionable operation, then) Validate
RunValidate(i) ==
    /\ pc[i] = "validate"
    /\ calls' = [calls EXCEPT ![i].validate = @ + 1]
    /\ steps' = [steps EXCEPT ![i] = Append(@, "Validate")]
    /\ LET e == Validate(call[i].op, call[i].args) IN
       IF e # Nil
       THEN /\ err' = [err EXCEPT ![i] =
                        [msg |-> "validation failed", capability |-> call[i].op.Name,
                         requires |-> <<>>, cause |-> e]]
            /\ pc' = [pc EXCEPT ![i] = "done"]
       ELSE /\ pc' = [pc EXCEPT ![i] = "execute"]
            /\ UNCHANGED err
    /\ UNCHANGED <<call, start, result, notExec>>

\* a plausible slip: Execute under a process-wide lock
RunExecuteSerialized(i) ==
    /\ pc[i] = "execute"
    /\ \A j \in Invs : pc[j] # "executing"
    /\ pc' = [pc EXCEPT ![i] = "executing"]
    /\ calls' = [calls EXCEPT ![i].execute = @ + 1]
    /\ steps' = [steps EXCEPT ![i] = Append(@, "Execute")]
    /\ UNCHANGED <<call, start, result, err, notExec>>

\* Run, step 4: op.Execute is called; the delegate may block in it
RunExecute(i) ==
    /\ pc[i] = "execute"
    /\ pc' = [pc EXCEPT ![i] = "executing"]
    /\ calls' = [calls EXCEPT ![i].execute = @ + 1]
    /\ steps' = [steps EXCEPT ![i] = Append(@, "Execute")]
    /\ UNCHANGED <<call, start, result, err, notExec>>

\* what the delegate's Execute can return
ExecuteOutcomes == {"ok", "error"}

\* a plausible slip: a failed Execute is retried by the executor
RunReportRetry(i, outcome) ==
    /\ pc[i] = "executing"
    /\ calls' = [calls EXCEPT ![i].returned = outcome]
    /\ IF outcome = "error"
       THEN /\ pc' = [pc EXCEPT ![i] = "execute"]
            /\ UNCHANGED <<result, steps>>
       ELSE /\ pc' = [pc EXCEPT ![i] = "done"]
            /\ result' = [result EXCEPT ![i] =
                           OperationResult(call[i].op, start[i])]
            /\ steps' = [steps EXCEPT ![i] = Append(@, "Report")]
    /\ UNCHANGED <<call, start, err, notExec>>

\* a plausible slip: the result envelope is built whatever Execute returned
RunReportAlways(i, outcome) ==
    /\ pc[i] = "executing"
    /\ pc' = [pc EXCEPT ![i] = "done"]
    /\ calls' = [calls EXCEPT ![i].returned = outcome]
    /\ err' = [err EXCEPT ![i] =
                 IF outcome = "error"
                 THEN [msg |-> "operation failed", capability |-> call[i].op.Name,
                       requires |-> <<>>, cause |-> "delegate error"]
                 ELSE @]
    /\ result' = [result EXCEPT ![i] =
                   OperationResult(call[i].op, start[i])]
    /\ steps' = [steps EXCEPT ![i] = Append(@, "Report")]
    /\ UNCHANGED <<call, start, notExec>>

\* Run, steps 4 and 5: Execute returns; an error is wrapped, a value is wrapped
\* into the OperationResult
RunReport(i, outcome) ==
    /\ pc[i] = "executing"
    /\ pc' = [pc EXCEPT ![i] = "done"]
    /\ calls' = [calls EXCEPT ![i].returned = outcome]
    /\ IF outcome = "error"
       THEN /\ err' = [err EXCEPT ![i] =
                        [msg |-> "operation failed", capability |-> call[i].op.Name,
                         requires |-> <<>>, cause |-> "delegate error"]]
            /\ UNCHANGED <<result, steps>>
       ELSE /\ result' = [result EXCEPT ![i] =
                           OperationResult(call[i].op, start[i])]
            /\ steps' = [steps EXCEPT ![i] = Append(@, "Report")]
            /\ UNCHANGED err
    /\ UNCHANGED <<call, start, notExec>>

(***************************************************************************)
(* operations: the Registry, its RWMutex and the goroutines that use it    *)
(***************************************************************************)
\* operations offered for registration: OpDup carries the name of OpOpen
OpDup == Operation(OpOpen.Name, Actionable, <<ClusterAdmin>>, {})
Catalogue == {OpOpen, OpRestart, OpDup}
Names == {o.Name : o \in Catalogue} \cup {"ambari_unknown"}

ReadKinds == {"Get", "All", "ReadOnlyOps", "ActionableOps", "Count", "Definitions"}

NoRegCall == [kind |-> Nil, op |-> NoOp, name |-> Nil]
\* shares names the slice of the registry whose backing array a returned
\* slice shares; a slice built by make or by append to an empty literal
\* shares none
NoRet == [err |-> Nil, op |-> NoOp, ok |-> FALSE, list |-> <<>>, set |-> {},
          total |-> 0, ro |-> 0, act |-> 0, shares |-> Nil]

\* NewRegistry: an empty map, nil slices, an unlocked mutex
NewRegistry ==
    /\ ops = [n \in {} |-> NoOp]
    /\ readonly = <<>>
    /\ actionable = <<>>
    /\ mu = [writer |-> 0, readers |-> {}]

RegProcsInit ==
    /\ rpc = [p \in Procs |-> "idle"]
    /\ rcall = [p \in Procs |-> NoRegCall]
    /\ rret = [p \in Procs |-> NoRet]
    /\ registered = [n \in Names |-> 0]

\* sync.RWMutex.Lock: waits until no goroutine holds the lock in either mode
Lock(p) ==
    /\ mu.writer = 0
    /\ mu.readers = {}
    /\ mu' = [mu EXCEPT !.writer = p]

\* sync.RWMutex.Unlock
Unlock(p) ==
    mu' = [mu EXCEPT !.writer = 0]

\* a plausible slip: a reader that takes no lock
RLockNoWait(p) ==
    mu' = [mu EXCEPT !.readers = @ \cup {p}]

\* sync.RWMutex.RLock: waits while a writer holds the lock
RLock(p) ==
    /\ mu.writer = 0
    /\ mu' = [mu EXCEPT !.readers = @ \cup {p}]

\* sync.RWMutex.RUnlock
RUnlock(p) ==
    mu' = [mu EXCEPT !.readers = @ \ {p}]

\* Register: r.mu.Lock()
RegisterLock(p, op) ==
    /\ rpc[p] = "idle"
    /\ Lock(p)
    /\ rpc' = [rpc EXCEPT ![p] = "reg_check"]
    /\ rcall' = [rcall EXCEPT ![p] = [kind |-> "Register", op |-> op, name |-> op.Name]]
    /\ UNCHANGED <<ops, readonly, actionable, rret, registered, notReg>>

\* a plausible slip: the duplicate check never fires
RegisterCheckNever(p) ==
    /\ rpc[p] = "reg_check"
    /\ rpc' = [rpc EXCEPT ![p] = "reg_insert"]
    /\ UNCHANGED <<ops, readonly, actionable, mu, rcall, rret, registered, notReg>>

\* Register: if _, exists := r.ops[op.Name()]; exists { return error }
RegisterCheck(p) ==
    /\ rpc[p] = "reg_check"
    /\ IF rcall[p].name \in DOMAIN ops
       THEN /\ rret' = [rret EXCEPT ![p].err = "already registered"]
            /\ rpc' = [rpc EXCEPT ![p] = "reg_unlock"]
       ELSE /\ rpc' = [rpc EXCEPT ![p] = "reg_insert"]
            /\ UNCHANGED rret
    /\ UNCHANGED <<ops, readonly, actionable, mu, rcall, registered, notReg>>

\* Register: r.ops[op.Name()] = op
RegisterInsert(p) ==
    /\ rpc[p] = "reg_insert"
    /\ LET op == rcall[p].op IN
       /\ ops' = [n \in DOMAIN ops \cup {op.Name} |-> IF n = op.Name THEN op ELSE ops[n]]
       /\ registered' = [registered EXCEPT ![op.Name] = @ + 1]
    /\ rpc' = [rpc EXCEPT ![p] = "reg_append"]
    /\ UNCHANGED <<readonly, actionable, mu, rcall, rret, notReg>>

\* Register: the switch on op.Type() that appends to one of the two slices
RegisterAppend(p) ==
    /\ rpc[p] = "reg_append"
    /\ LET op == rcall[p].op IN
       /\ readonly' = IF op.Type = ReadOnly THEN Append(readonly, op) ELSE readonly
       /\ actionable' = IF op.Type = Actionable THEN Append(actionable, op)
                         ELSE actionable
    /\ rpc' = [rpc EXCEPT ![p] = "reg_unlock"]
    /\ UNCHANGED <<ops, mu, rcall, rret, registered, notReg>>

\* Register: the deferred r.mu.Unlock() and the return
RegisterUnlock(p) ==
    /\ rpc[p] = "reg_unlock"
    /\ Unlock(p)
    /\ rpc' = [rpc EXCEPT ![p] = "returned"]
    /\ UNCHANGED <<ops, readonly, actionable, rcall, rret, registered, notReg>>

\* Get, All, ReadOnlyOps, ActionableOps, Count, Definitions: r.mu.RLock()
ReadLock(p, kind, name) ==
    /\ rpc[p] = "idle"
    /\ RLock(p)
    /\ rpc' = [rpc EXCEPT ![p] = "read"]
    /\ rcall' = [rcall EXCEPT ![p] = [kind |-> kind, op |-> NoOp, name |-> name]]
    /\ UNCHANGED <<ops, readonly, actionable, rret, registered, notReg>>

\* Registry.Get: op, ok := r.ops[name]
Get(name) ==
    IF name \in DOMAIN ops
    THEN [NoRet EXCEPT !.op = ops[name], !.ok = TRUE]
    ELSE NoRet

\* Registry.All: the values of r.ops, copied in map-iteration order; the order
\* is unspecified, the result is kept as the collection of its elements
All == [NoRet EXCEPT !.set = {ops[n] : n \in DOMAIN ops}]

\* a plausible slip: return r.readonly
ReadOnlyOpsShared == [NoRet EXCEPT !.list = readonly, !.shares = "readonly"]

\* Registry.ReadOnlyOps: a copy of r.readonly
ReadOnlyOps == [NoRet EXCEPT !.list = readonly]

\* Registry.ActionableOps: a copy of r.actionable
ActionableOps == [NoRet EXCEPT !.list = actionable]

\* Registry.Count: len(r.ops), len(r.readonly), len(r.actionable)
Count ==
    [NoRet EXCEPT !.total = Cardinality(DOMAIN ops), !.ro = Len(readonly),
                  !.act = Len(actionable)]

\* Registry.Definitions: op.Definition() of every value of r.ops (the
\* definition carries the operation's name)
Definitions == [NoRet EXCEPT !.set = {ops[n].Name : n \in DOMAIN ops}]

\* the body of a reading method, between RLock and RUnlock
ReadBody(p) ==
    /\ rpc[p] = "read"
    /\ rret' = [rret EXCEPT ![p] =
                 CASE rcall[p].kind = "Get" -> Get(rcall[p].name)
                   [] rcall[p].kind = "All" -> All
                   [] rcall[p].kind = "ReadOnlyOps" -> ReadOnlyOps
                   [] rcall[p].kind = "ActionableOps" -> ActionableOps
                   [] rcall[p].kind = "Count" -> Count
                   [] rcall[p].kind = "Definitions" -> Definitions]
    /\ rpc' = [rpc EXCEPT ![p] = "runlock"]
    /\ UNCHANGED <<ops, readonly, actionable, mu, rcall, registered, notReg>>

\* the deferred r.mu.RUnlock() and the return
ReadUnlock(p) ==
    /\ rpc[p] = "runlock"
    /\ RUnlock(p)
    /\ rpc' = [rpc EXCEPT ![p] = "returned"]
    /\ UNCHANGED <<ops, readonly, actionable, rcall, rret, registered, notReg>>

\* the caller takes the returned value; the goroutine is free for the next call
Return(p) ==
    /\ rpc[p] = "returned"
    /\ rpc' = [rpc EXCEPT ![p] = "idle"]
    /\ rcall' = [rcall EXCEPT ![p] = NoRegCall]
    /\ rret' = [rret EXCEPT ![p] = NoRet]
    /\ UNCHANGED <<ops, readonly, actionable, mu, registered, notReg>>

\* the caller of All, ReadOnlyOps or ActionableOps overwrites an element of
\* the slice it was returned; the write lands in the backing array, and so in
\* the registry's slice too when the two share it
CallerModify(p, op) ==
    /\ rpc[p] = "returned"
    /\ rcall[p].kind \in {"All", "ReadOnlyOps", "ActionableOps"}
    /\ IF rcall[p].kind = "All"
       THEN /\ \E o \in rret[p].set \ {op} :
                  rret' = [rret EXCEPT ![p].set = (@ \ {o}) \cup {op}]
            /\ UNCHANGED <<readonly, actionable>>
       ELSE \E i \in 1..Len(rret[p].list) :
               /\ rret[p].list[i] # op
               /\ rret' = [rret EXCEPT ![p].list[i] = op]
               /\ readonly' = IF rret[p].shares = "readonly" /\ i <= Len(readonly)
                              THEN [readonly EXCEPT ![i] = op] ELSE readonly
               /\ actionable' = IF rret[p].shares = "actionable" /\ i <= Len(actionable)
                                THEN [actionable EXCEPT ![i] = op] ELSE actionable
    /\ UNCHANGED <<ops, mu, rpc, rcall, registered, notReg>>

RegistryNext ==
    \/ \E p \in Procs, op \in Catalogue : RegisterLock(p, op)
    \/ \E p \in Procs : RegisterCheck(p)
    \/ \E p \in Procs : RegisterInsert(p)
    \/ \E p \in Procs : RegisterAppend(p)
    \/ \E p \in Procs : RegisterUnlock(p)
    \/ \E p \in Procs, kind \in ReadKinds :
          \E name \in (IF kind = "Get" THEN Names ELSE {Nil}) : ReadLock(p, kind, name)
    \/ \E p \in Procs : ReadBody(p)
    \/ \E p \in Procs : ReadUnlock(p)
    \/ \E p \in Procs : Return(p)


(***************************************************************************)
(* auth: LDAPProvider.Authenticate and Middleware.Handler                  *)
(*                                                                         *)
(* A header value that is parsed (the group list) is a sequence of tokens: *)
(* "," , " " and words.                                                    *)
(***************************************************************************)
Comma == ","
Space == " "

\* the index of the first comma of s, or 0
RECURSIVE FirstComma(_, _)
FirstComma(s, k) ==
    IF k > Len(s) THEN 0
    ELSE IF s[k] = Comma THEN k
    ELSE FirstComma(s, k + 1)

\* strings.Split(s, ","): the pieces between the commas, empty pieces kept
RECURSIVE Split(_)
Split(s) ==
    LET k == FirstComma(s, 1) IN
    IF k = 0 THEN <<s>>
    ELSE <<SubSeq(s, 1, k - 1)>> \o Split(SubSeq(s, k + 1, Len(s)))

\* strings.TrimSpace: leading and trailing white space removed
RECURSIVE TrimSpace(_)
TrimSpace(s) ==
    IF s = <<>> THEN s
    ELSE IF Head(s) = Space THEN TrimSpace(Tail(s))
    ELSE IF s[Len(s)] = Space THEN TrimSpace(SubSeq(s, 1, Len(s) - 1))
    ELSE s

\* the header names the provider of main reads: headerPrefix "x-remote-" + ...
NameKey == "x-remote-name"
UsernameKey == "x-remote-username"
GroupsKey == "x-remote-groups"

\* strings.ToLower on the header names net/http hands to the middleware and
\* on the values main reads ENABLE_ACTIONABLE_TOOLS with
ToLower(name) ==
    CASE name = "X-Remote-Name" -> NameKey
      [] name = "X-Remote-Username" -> UsernameKey
      [] name = "X-Remote-Groups" -> GroupsKey
      [] name \in {"TRUE", "True"} -> "true"
      [] name = "FALSE" -> "false"
      [] OTHER -> name

\* defaultGroupMappings of main: group -> permissions
GroupMappings ==
    (<<"ambari-admins">> :> <<"cluster:admin", "service:admin", "alert:admin",
                              "config:modify", "host:manage">>)
    @@ (<<"hadoop-operators">> :> <<"cluster:operate", "service:operate",
                                    "service:restart", "alert:manage">>)
    @@ (<<"data-engineers">> :> <<"cluster:view", "service:view", "service:operate",
                                  "config:view">>)
    @@ (<<"bigdata-viewers">> :> <<"cluster:view", "service:view", "alert:view",
                                   "config:view", "host:view">>)

\* the default permissions main gives the provider
DefaultPermissions == <<"cluster:admin", "service:admin">>

\* headers[key] of a Go map: the zero value when the key is absent
HeaderValue(headers, key, zero) ==
    IF key \in DOMAIN headers THEN headers[key] ELSE zero

\* permSet[perm] = true for every perm of perms. The slice later built from the
\* map has Go's unspecified iteration order; every reader of it scans the whole
\* slice, and the order kept here is the order of insertion.
RECURSIVE AddPerms(_, _)
AddPerms(acc, perms) ==
    IF perms = <<>> THEN acc
    ELSE AddPerms(IF Head(perms) \in Range(acc) THEN acc ELSE Append(acc, Head(perms)),
                  Tail(perms))

\* a plausible slip: the permissions of a group replace those mapped so far
RECURSIVE MapGroupsLastWins(_, _)
MapGroupsLastWins(acc, groups) ==
    IF groups = <<>> THEN acc
    ELSE MapGroupsLastWins(IF Head(groups) \in DOMAIN GroupMappings
                           THEN AddPerms(<<>>, GroupMappings[Head(groups)]) ELSE acc,
                           Tail(groups))

\* the loop over the groups that fills permSet
RECURSIVE MapGroups(_, _)
MapGroups(acc, groups) ==
    IF groups = <<>> THEN acc
    ELSE MapGroups(IF Head(groups) \in DOMAIN GroupMappings
                   THEN AddPerms(acc, GroupMappings[Head(groups)]) ELSE acc,
                   Tail(groups))

\* a plausible slip: the secondary header is read first
UsernameSecondaryFirst(headers) ==
    LET secondary == HeaderValue(headers, UsernameKey, "")
    IN  IF secondary = "" THEN HeaderValue(headers, NameKey, "") ELSE secondary

\* the username Authenticate extracts: headers[prefix+"name"], and
\* headers[prefix+"username"] if that is empty
Username(headers) ==
    LET primary == HeaderValue(headers, NameKey, "")
    IN  IF primary = "" THEN HeaderValue(headers, UsernameKey, "") ELSE primary

\* LDAPProvider.Authenticate: [ctx, err]
Authenticate(headers) ==
    LET username == Username(headers)
        groupsHeader == HeaderValue(headers, GroupsKey, <<>>)
        pieces == Split(groupsHeader)
        groups == IF groupsHeader # <<>>
                  THEN [k \in 1..Len(pieces) |-> TrimSpace(pieces[k])]
                  ELSE <<>>
        mapped == MapGroups(<<>>, groups)
        permissions == IF Len(mapped) = 0 THEN AddPerms(<<>>, DefaultPermissions)
                       ELSE mapped
    IN  IF username = ""
        THEN [ctx |-> NoAuth, err |-> "username not found in headers"]
        ELSE [ctx |-> AuthContext(username, groups, permissions, TRUE, "LDAP"),
              err |-> Nil]

\* the identity Middleware.Handler makes up when auth is disabled
DisabledIdentity ==
    AuthContext("default-user", <<"ambari-admins">>, PermissionGroups.ADMIN,
                FALSE, "disabled")

(***************************************************************************)
(* transport and main: a tool call from the transport to Executor.Run      *)
(***************************************************************************)
ModeStdio == "stdio"
ModeHTTP == "http"
ModeSSL == "ssl"
ModeMTLS == "mtls"
Modes == {ModeStdio, ModeHTTP, ModeSSL, ModeMTLS}
HTTPFamily == {ModeHTTP, ModeSSL, ModeMTLS}

\* the header maps requests carry (net/http's canonical names)
NoHeaders == [n \in {} |-> ""]
HeadersViewer ==
    ("X-Remote-Name" :> "alice") @@ ("X-Remote-Groups" :> <<"bigdata-viewers">>)
HeadersAdmin ==
    ("X-Remote-Username" :> "bob")
    @@ ("X-Remote-Groups" :> <<Space, "ambari-admins", Space, Comma, "nogroup">>)
HeaderMaps == {NoHeaders, HeadersViewer, HeadersAdmin}

\* a request: where it is, its headers, the identity in its context, the HTTP
\* status written, and how often the provider was called for it
NoRequest == [at |-> "new", headers |-> NoHeaders, ctxAuth |-> NoAuth, status |-> 0,
              provider |-> 0]

\* the server of main before its first request
ServerIdle ==
    /\ mode = ModeStdio
    /\ mwEnabled = FALSE
    /\ req = [r \in Reqs |-> NoRequest]

\* a tool call arrives: over stdio it reaches the tool handler at once, over an
\* HTTP-family transport it enters authMW.Handler(handler)
Arrive(r, headers) ==
    /\ req[r].at = "new"
    /\ IF mode = ModeStdio
       THEN /\ headers = NoHeaders
            /\ req' = [req EXCEPT ![r].at = "tool"]
       ELSE req' = [req EXCEPT ![r].at = "middleware", ![r].headers = headers]
    /\ UNCHANGED <<mode, mwEnabled, execVars, notSrv>>

\* a plausible slip: the provider is consulted whatever the enabled flag says
HandlerAlwaysAuthenticates(r) ==
    /\ req[r].at = "middleware"
    /\ LET a == Authenticate([k \in {ToLower(n) : n \in DOMAIN req[r].headers} |->
                                LET n == CHOOSE n \in DOMAIN req[r].headers :
                                           ToLower(n) = k
                                IN req[r].headers[n]])
       IN  IF a.err # Nil
           THEN req' = [req EXCEPT ![r].at = "rejected", ![r].status = 401,
                                   ![r].provider = @ + 1]
           ELSE req' = [req EXCEPT ![r].at = "tool", ![r].ctxAuth = a.ctx,
                                   ![r].provider = @ + 1]
    /\ UNCHANGED <<mode, mwEnabled, execVars, notSrv>>

\* a plausible slip: the return after http.Error is missing
HandlerNoReturn(r) ==
    /\ req[r].at = "middleware"
    /\ IF mwEnabled
       THEN LET headers == [k \in {ToLower(n) : n \in DOMAIN req[r].headers} |->
                              LET n == CHOOSE n \in DOMAIN req[r].headers :
                                         ToLower(n) = k
                              IN req[r].headers[n]]
                a == Authenticate(headers)
            IN  IF a.err # Nil
                THEN req' = [req EXCEPT ![r].at = "tool", ![r].status = 401,
                                        ![r].ctxAuth = a.ctx,
                                        ![r].provider = @ + 1]
                ELSE req' = [req EXCEPT ![r].at = "tool", ![r].ctxAuth = a.ctx,
                                        ![r].provider = @ + 1]
       ELSE req' = [req EXCEPT ![r].at = "tool", ![r].ctxAuth = DisabledIdentity]
    /\ UNCHANGED <<mode, mwEnabled, execVars, notSrv>>

\* Middleware.Handler
Handler(r) ==
    /\ req[r].at = "middleware"
    /\ IF mwEnabled
       THEN LET headers == [k \in {ToLower(n) : n \in DOMAIN req[r].headers} |->
                              LET n == CHOOSE n \in DOMAIN req[r].headers :
                                         ToLower(n) = k
                              IN req[r].headers[n]]
                a == Authenticate(headers)
            IN  IF a.err # Nil
                THEN req' = [req EXCEPT ![r].at = "rejected", ![r].status = 401,
                                        ![r].provider = @ + 1]
                ELSE req' = [req EXCEPT ![r].at = "tool", ![r].ctxAuth = a.ctx,
                                        ![r].provider = @ + 1]
       ELSE req' = [req EXCEPT ![r].at = "tool", ![r].ctxAuth = DisabledIdentity]
    /\ UNCHANGED <<mode, mwEnabled, execVars, notSrv>>

\* the identity the tool handler of registerMCPTool builds
StdioIdentity ==
    AuthContext("stdio-user", <<"ambari-admins">>, PermissionGroups.ADMIN, TRUE, "stdio")

\* the tool handler of registerMCPTool: builds its AuthContext and calls
\* executor.Run(ctx, op, input, authCtx)
ToolHandler(r, op, args) ==
    /\ req[r].at = "tool"
    /\ req' = [req EXCEPT ![r].at = "run"]
    /\ RunCall(r, op, args, StdioIdentity)
    /\ UNCHANGED <<mode, mwEnabled, notSrv>>

(***************************************************************************)
(* transport and main: Factory, Start, serving and shutdown                *)
(***************************************************************************)
\* the values of the -transport flag: the four modes, and "https", which the
\* flag's usage text names and Factory does not know
FlagModes == Modes \cup {"https"}

\* the client certificate a connection presents
CertKinds == {"none", "expired", "unknown-ca", "valid"}

NoConn == [cert |-> "none", at |-> "none"]

\* what Start can find wrong: the certificate or key file unreadable, the CA
\* bundle unreadable, the CA bundle without a certificate in it, the address
\* not free
Faults == {"none", "cert", "ca-read", "ca-parse", "bind"}

\* a transport that is serving, with no connection yet
TransportIdle ==
    /\ fault = "none"
    /\ phase = "serving"
    /\ closed = FALSE
    /\ startErr = Nil
    /\ cancelled = FALSE
    /\ conn = [c \in Reqs |-> NoConn]

\* main before transport.Factory, with the flag parsed
TransportInit ==
    /\ fault \in Faults
    /\ phase = "factory"
    /\ closed = FALSE
    /\ startErr = Nil
    /\ cancelled = FALSE
    /\ conn = [c \in Reqs |-> NoConn]

\* main records the error and is about to log it with Fatal
Fail(msg) ==
    /\ phase' = "failed"
    /\ startErr' = msg

\* transport.Factory: a transport for a known mode, an error for any other
Factory ==
    /\ phase = "factory"
    /\ IF mode \in Modes
       THEN /\ phase' = IF mode \in {ModeSSL, ModeMTLS} THEN "loadcert" ELSE "listen"
            /\ UNCHANGED startErr
       ELSE Fail("unsupported transport mode")
    /\ UNCHANGED <<fault, closed, cancelled, conn, notLife>>

\* Start of ssl and mtls: tls.LoadX509KeyPair(cfg.SSLCert, cfg.SSLKey)
StartLoadCert ==
    /\ phase = "loadcert"
    /\ IF fault # "cert"
       THEN /\ phase' = IF mode = ModeMTLS THEN "readca" ELSE "listen"
            /\ UNCHANGED startErr
       ELSE Fail("failed to load TLS certificate")
    /\ UNCHANGED <<fault, closed, cancelled, conn, notLife>>

\* Start of mtls: ioutil.ReadFile(cfg.SSLCACerts)
StartReadCA ==
    /\ phase = "readca"
    /\ IF fault # "ca-read"
       THEN phase' = "parseca" /\ UNCHANGED startErr
       ELSE Fail("failed to read CA certificate")
    /\ UNCHANGED <<fault, closed, cancelled, conn, notLife>>

\* a plausible slip: the result of AppendCertsFromPEM is not looked at
StartParseCAUnchecked ==
    /\ phase = "parseca"
    /\ phase' = "listen"
    /\ UNCHANGED <<fault, closed, startErr, cancelled, conn, notLife>>

\* Start of mtls: caCertPool.AppendCertsFromPEM(caCert)
StartParseCA ==
    /\ phase = "parseca"
    /\ IF fault # "ca-parse"
       THEN phase' = "listen" /\ UNCHANGED startErr
       ELSE Fail("failed to parse CA certificate")
    /\ UNCHANGED <<fault, closed, cancelled, conn, notLife>>

\* the error ListenAndServe returns once the server has been closed
ErrServerClosed == "http: Server closed"

\* the end of Start: mcpServer.Listen on stdio; on the HTTP family
\* server.ListenAndServe[TLS], which gives up if the server is closed already,
\* binds the listener, and serves
StartListen ==
    /\ phase = "listen"
    /\ IF mode = ModeStdio THEN phase' = "serving" /\ UNCHANGED startErr
       ELSE IF closed THEN Fail(ErrServerClosed)
       ELSE IF fault # "bind" THEN phase' = "serving" /\ UNCHANGED startErr
       ELSE Fail("listen failed")
    /\ UNCHANGED <<fault, closed, cancelled, conn, notLife>>

\* the signal goroutine of main: cancel() on SIGINT or SIGTERM
Cancel ==
    /\ phase # "exited"
    /\ ~cancelled
    /\ cancelled' = TRUE
    /\ UNCHANGED <<fault, phase, closed, startErr, conn, notLife>>

\* a plausible slip: the goroutine closes the server without waiting for ctx
ShutdownCloseNoWait ==
    /\ mode \in HTTPFamily
    /\ phase \in {"listen", "serving"}
    /\ ~closed
    /\ closed' = TRUE
    /\ conn' = [c \in Reqs |->
                  IF conn[c].at \in {"handshake", "accepted"}
                  THEN [conn[c] EXCEPT !.at = "closed"] ELSE conn[c]]
    /\ UNCHANGED <<fault, phase, startErr, cancelled, notLife>>

\* the goroutine Start leaves behind on the HTTP family: <-ctx.Done(), then
\* server.Close(), which closes the listener and every connection
ShutdownClose ==
    /\ mode \in HTTPFamily
    /\ phase \in {"listen", "serving"}
    /\ cancelled /\ ~closed
    /\ closed' = TRUE
    /\ conn' = [c \in Reqs |->
                  IF conn[c].at \in {"handshake", "accepted"}
                  THEN [conn[c] EXCEPT !.at = "closed"] ELSE conn[c]]
    /\ UNCHANGED <<fault, phase, startErr, cancelled, notLife>>

\* Serve leaves its accept loop: the listener is closed (HTTP family), or the
\* context of mcpServer.Listen is done (stdio)
ServeReturn ==
    /\ phase = "serving"
    /\ IF mode = ModeStdio THEN cancelled ELSE closed
    /\ Fail(IF mode = ModeStdio THEN "context canceled" ELSE ErrServerClosed)
    /\ UNCHANGED <<fault, closed, cancelled, conn, notLife>>

\* main: logger.Fatal on the error of Factory or Start, which exits the
\* process and with it every goroutine
Fatal ==
    /\ phase = "failed"
    /\ phase' = "exited"
    /\ UNCHANGED <<fault, closed, startErr, cancelled, conn, notLife>>

\* a plausible slip: a client certificate is verified only if one is sent
ClientAuthIfGiven ==
    IF mode = ModeMTLS THEN "VerifyClientCertIfGiven" ELSE "NoClientCert"

\* tls.Config.ClientAuth of the server the transport builds
ClientAuth ==
    IF mode = ModeMTLS THEN "RequireAndVerifyClientCert" ELSE "NoClientCert"

\* whether the TLS handshake of a server with that ClientAuth and the CA pool
\* of cfg.SSLCACerts admits a client presenting the certificate
HandshakeAdmits(clientAuth, cert) ==
    CASE clientAuth \in {"NoClientCert", "RequestClientCert"} -> TRUE
      [] clientAuth = "RequireAnyClientCert" -> cert # "none"
      [] clientAuth = "VerifyClientCertIfGiven" -> cert \in {"none", "valid"}
      [] clientAuth = "RequireAndVerifyClientCert" -> cert = "valid"

\* the accept loop takes a connection; over TLS the handshake comes next
Accept(c, cert) ==
    /\ mode \in HTTPFamily
    /\ phase = "serving" /\ ~closed
    /\ conn[c].at = "none"
    /\ conn' = [conn EXCEPT ![c] = [cert |-> IF mode = ModeHTTP THEN "none" ELSE cert,
                                    at |-> IF mode = ModeHTTP THEN "accepted"
                                           ELSE "handshake"]]
    /\ UNCHANGED <<fault, phase, closed, startErr, cancelled, notLife>>

\* the TLS handshake of the connection
Handshake(c) ==
    /\ conn[c].at = "handshake"
    /\ phase # "exited"
    /\ conn' = [conn EXCEPT ![c].at = IF HandshakeAdmits(ClientAuth, conn[c].cert)
                                      THEN "accepted" ELSE "rejected"]
    /\ UNCHANGED <<fault, phase, closed, startErr, cancelled, notLife>>

\* the goroutines of the requests run as long as the process does; a request
\* is read from an open connection, or from stdin
Serving(c) ==
    /\ phase = "serving"
    /\ IF mode = ModeStdio THEN TRUE ELSE conn[c].at = "accepted"

ServeArrive(c, headers) == Serving(c) /\ Arrive(c, headers)
ServeHandler(c) == phase # "exited" /\ Handler(c)
ServeToolHandler(c, op, args) == phase # "exited" /\ ToolHandler(c, op, args)
ServeValidate(i) == phase # "exited" /\ RunValidate(i)
ServeExecute(i) == phase # "exited" /\ RunExecute(i)
ServeReport(i, outcome) == phase # "exited" /\ RunReport(i, outcome)

(***************************************************************************)
(* HasAllPermissions on drawn inputs                                       *)
(***************************************************************************)
PermUniverse == {ServiceView, ServiceRestart, ClusterAdmin}

\* the sequences over S of length at most n
SeqsUpTo(S, n) == UNION {[1..k -> S] : k \in 0..n}

PermIdle ==
    /\ permIn = <<>>
    /\ reqIn = <<>>
    /\ permDone = FALSE
    /\ hasAllOut = FALSE

PermInit ==
    /\ permIn \in SeqsUpTo(PermUniverse, MaxPermLen)
    /\ reqIn \in SeqsUpTo(PermUniverse, MaxPermLen)
    /\ permDone = FALSE
    /\ hasAllOut = FALSE

\* a.HasAllPermissions(required...) on the drawn identity
ApplyHasAll ==
    /\ ~permDone
    /\ hasAllOut' = HasAllPermissions(permIn, reqIn)
    /\ permDone' = TRUE
    /\ UNCHANGED <<permIn, reqIn, notPerm>>

(***************************************************************************)
(* LDAPProvider.Authenticate on drawn inputs                               *)
(***************************************************************************)
\* the tokens a drawn group header is made of
HeaderTokens == {Comma, Space, "hadoop-operators", "bigdata-viewers", "nogroup"}

\* the values drawn for a user-name header; "" is a header sent empty
UserValues == {"", "alice", "bob"}

\* a value that may be absent: the empty sequence, or the value alone
Opt(S) == {<<>>} \cup {<<v>> : v \in S}

\* the header map holding key when the value is present
Entry(key, o) == IF o = <<>> THEN NoHeaders ELSE key :> o[1]

\* the header maps (lower-cased names) Authenticate is applied to: each of the
\* three headers is absent or carries one of the drawn values
AuthHeaderMaps ==
    {Entry(NameKey, n) @@ Entry(UsernameKey, u) @@ Entry(GroupsKey, g) :
        n \in Opt(UserValues), u \in Opt(UserValues),
        g \in Opt(SeqsUpTo(HeaderTokens, MaxHeaderLen))}

NoAuthResult == [ctx |-> NoAuth, err |-> Nil]

AuthIdle ==
    /\ authIn = NoHeaders
    /\ authDone = FALSE
    /\ authOut = NoAuthResult

AuthInit ==
    /\ authIn \in AuthHeaderMaps
    /\ authDone = FALSE
    /\ authOut = NoAuthResult

\* p.Authenticate(ctx, headers) on the drawn header map
ApplyAuthenticate ==
    /\ ~authDone
    /\ authOut' = Authenticate(authIn)
    /\ authDone' = TRUE
    /\ UNCHANGED <<authIn, notAuth>>

(***************************************************************************)
(* operations/actionable: Validate and Execute of a capability             *)
(***************************************************************************)
\* what an argument map holds under a key: nothing, a value that is not a
\* string (a number decoded from JSON), the empty string, another string
Kinds == {"absent", "number", "empty", "string"}

\* the capabilities applied, and the keys their Validate and Execute read
Capabilities == {"CreateUser", "DisableMaintenanceMode", "StartService"}
KeysOf(op) ==
    CASE op = "CreateUser" -> {"username", "password"}
      [] op = "DisableMaintenanceMode" ->
            {"clusterName", "serviceName", "componentName", "hostName"}
      [] op = "StartService" -> {"clusterName", "serviceName"}

\* _, ok := a[k].(string)
IsString(a, k) == a[k] \in {"empty", "string"}

\* the helper req of alerts.go: the error of the first key that is neither a string nor
\* present, nil when there is none
required(a, keys) ==
    LET missing == {i \in 1..Len(keys) : ~IsString(a, keys[i]) /\ a[keys[i]] = "absent"}
    IN  IF missing = {} THEN Nil
        ELSE keys[CHOOSE i \in missing : \A j \in missing : i <= j] \o " is required"

\* Validate of the capability
ValidateOf(op, a) ==
    CASE op = "CreateUser" -> required(a, <<"username", "password">>)
      [] op = "DisableMaintenanceMode" -> required(a, <<"clusterName", "serviceName">>)
      [] op = "StartService" ->
            IF ~IsString(a, "clusterName") THEN "clusterName is required"
            ELSE IF ~IsString(a, "serviceName") THEN "serviceName is required"
            ELSE Nil

\* Execute of the capability as far as its type assertions go: a[k].(string)
\* panics unless a[k] holds a string, and without a panic the client is called
ExecuteOf(op, a) ==
    CASE op = "CreateUser" ->
            IF IsString(a, "username") /\ IsString(a, "password")
            THEN "called" ELSE "panic"
      [] op = "DisableMaintenanceMode" ->
            IF ~(IsString(a, "clusterName") /\ IsString(a, "serviceName"))
            THEN "panic"
            ELSE IF a["componentName"] = "string"
                 THEN IF IsString(a, "hostName") THEN "called" ELSE "panic"
                 ELSE "called"
      [] op = "StartService" ->
            IF IsString(a, "clusterName") /\ IsString(a, "serviceName")
            THEN "called" ELSE "panic"

NoOutcome == [err |-> Nil, exec |-> "none"]

ValIdle ==
    /\ vop = ""
    /\ vargs = [k \in {} |-> "absent"]
    /\ vpc = "idle"
    /\ vout = NoOutcome

\* a capability and an argument map, as a caller may send them
ValInit ==
    /\ vop \in Capabilities
    /\ vargs \in [KeysOf(vop) -> Kinds]
    /\ vpc = "drawn"
    /\ vout = NoOutcome

\* Executor.Run: op.Validate(args)
ApplyValidate ==
    /\ vpc = "drawn"
    /\ vout' = [vout EXCEPT !.err = ValidateOf(vop, vargs)]
    /\ vpc' = "validated"
    /\ UNCHANGED <<vop, vargs, notVal>>

\* Executor.Run: op.Execute(ctx, args), reached when Validate returned nil
ApplyExecute ==
    /\ vpc = "validated"
    /\ vout.err = Nil
    /\ vout' = [vout EXCEPT !.exec = ExecuteOf(vop, vargs)]
    /\ vpc' = "executed"
    /\ UNCHANGED <<vop, vargs, notVal>>

(***************************************************************************)
(* cmd/server: what main registers at startup and offers as tools          *)
(***************************************************************************)
\* the first operations of the two slices main registers, in their order
OpGetClusters == Operation("ambari_clusters_getclusters", ReadOnly, <<ClusterView>>, {})
OpGetCluster ==
    Operation("ambari_clusters_getcluster", ReadOnly, <<ClusterView>>, {"clusterName"})
OpStartService ==
    Operation("ambari_services_startservice", Actionable, <<ServiceOperate>>,
              {"clusterName", "serviceName"})
MainReadOnlyOps == <<OpGetClusters, OpGetCluster>>
MainActionableOps == <<OpStartService, OpRestart>>

\* values ENABLE_ACTIONABLE_TOOLS is started with; "" is the variable unset
\* (os.Getenv gives "" for an unset variable and for an empty one)
EnvValues == {"", "true", "TRUE", "True", "false", "FALSE", "0", "1", "yes"}

\* envOr: the value of the variable unless it is empty, else the fallback
envOr(value, fallback) == IF value # "" THEN value ELSE fallback

\* main: enableActionable
enableActionable == ToLower(envOr(environ, "true")) = "true"

MainIdle ==
    /\ environ = ""
    /\ mpc = "idle"
    /\ mnext = 0
    /\ pending = {}
    /\ tools = {}

\* main before its first Register, under any setting of the variable
MainInit ==
    /\ environ \in EnvValues
    /\ mpc = "readonly"
    /\ mnext = 1
    /\ pending = {}
    /\ tools = {}

\* one registry.Register(op) of main, which no other goroutine runs beside:
\* an error ends the process (logger.Fatal), else the loop goes on to the
\* next operation of list or, past its end, to the position after
MainRegister(list, after) ==
    LET op == list[mnext] IN
    /\ mu = [writer |-> 0, readers |-> {}]
    /\ IF op.Name \in DOMAIN ops
       THEN /\ mpc' = "fatal"
            /\ UNCHANGED <<ops, readonly, actionable, registered, mnext>>
       ELSE /\ ops' = [n \in DOMAIN ops \cup {op.Name} |->
                         IF n = op.Name THEN op ELSE ops[n]]
            /\ registered' = [n \in DOMAIN registered \cup {op.Name} |->
                                IF n # op.Name THEN registered[n]
                                ELSE IF n \in DOMAIN registered
                                     THEN registered[n] + 1 ELSE 1]
            /\ readonly' = IF op.Type = ReadOnly THEN Append(readonly, op)
                           ELSE readonly
            /\ actionable' = IF op.Type = Actionable THEN Append(actionable, op)
                             ELSE actionable
            /\ IF mnext < Len(list)
               THEN mnext' = mnext + 1 /\ UNCHANGED mpc
               ELSE mnext' = 1 /\ mpc' = after
    /\ UNCHANGED <<mu, rpc, rcall, rret, environ, pending, tools, notMain>>

\* main: the loop over readOnlyOps
MainRegisterReadOnly ==
    /\ mpc = "readonly"
    /\ MainRegister(MainReadOnlyOps, "env")

\* main: the test of enableActionable and the log line of its else branch
MainReadEnv ==
    /\ mpc = "env"
    /\ mpc' = IF enableActionable THEN "actionable" ELSE "count"
    /\ UNCHANGED <<environ, mnext, pending, tools, regVars, notMain>>

\* main: the loop over actionableOps
MainRegisterActionable ==
    /\ mpc = "actionable"
    /\ MainRegister(MainActionableOps, "count")

\* main: registry.Count() and registry.All(), whose slice is in the order
\* the map was ranged in
MainAll ==
    /\ mpc = "count"
    /\ pending' = {ops[n] : n \in DOMAIN ops}
    /\ mpc' = "tools"
    /\ UNCHANGED <<environ, mnext, tools, regVars, notMain>>

\* main: registerMCPTool for the next operation of the slice, or the end of
\* the loop
MainRegisterTool ==
    /\ mpc = "tools"
    /\ IF pending = {}
       THEN /\ mpc' = "serving"
            /\ UNCHANGED <<pending, tools>>
       ELSE \E op \in pending :
               /\ pending' = pending \ {op}
               /\ tools' = tools \cup {op.Name}
               /\ UNCHANGED mpc
    /\ UNCHANGED <<environ, mnext, regVars, notMain>>

(***************************************************************************)
(* Specifications                                                          *)
(***************************************************************************)
\* the registry of main once startup has registered its operations
RegistryStarted ==
    /\ ops = (OpOpen.Name :> OpOpen) @@ (OpRestart.Name :> OpRestart)
    /\ readonly = <<OpOpen>>
    /\ actionable = <<OpRestart>>
    /\ mu = [writer |-> 0, readers |-> {}]

(***************************************************************************)
(* certs: GenerateCA, GenerateCertificate, the files, LoadCA, CertManager  *)
(***************************************************************************)
\* Keys are numbered in the order rsa.GenerateKey produced them; a private
\* key and its public half carry the same number, and 0 is no key.  The keys
\* of EarlierKeys were generated by earlier runs of the tool.
EarlierKeys == {1, 2}
FreshKey == Cardinality(EarlierKeys) + nkeys + 1

CACommonName == "Ambari MCP Server CA"
ClientOrganization == "Ambari MCP Client"
ServerAuth == "serverAuth"
ClientAuthUsage == "clientAuth"

\* pkix.Name
Name(o, c, cn) == [o |-> o, c |-> c, cn |-> cn]
NoName == Name("", "", "")

\* x509.Certificate: the fields the package sets, with the key that signed it
NoCert ==
    [subject |-> NoName, issuer |-> NoName, pub |-> 0, signer |-> 0,
     isCA |-> FALSE, certSign |-> FALSE, eku |-> {}]

\* the error values: kind is the dynamic type, is what errors.Is finds in the
\* chain, text the message, outermost part first
NoErr == [kind |-> "nil", is |-> "none", text |-> <<>>]
ErrNotExist ==
    [kind |-> "PathError", is |-> "ErrNotExist",
     text |-> <<"no such file or directory">>]
ErrPermission ==
    [kind |-> "PathError", is |-> "ErrPermission", text |-> <<"permission denied">>]
ErrKeySize == [kind |-> "errorString", is |-> "none", text |-> <<"too few bits">>]
ErrKeyMismatch ==
    [kind |-> "errorString", is |-> "none",
     text |-> <<"x509: provided PrivateKey doesn't match parent's PublicKey">>]
ErrMalformed ==
    [kind |-> "errorString", is |-> "none", text |-> <<"x509: malformed">>]

\* fmt.Errorf(msg + ": %v", e): the verb %v formats e, it does not wrap it
Errorf(msg, e) == [kind |-> "errorString", is |-> "none", text |-> <<msg>> \o e.text]
\* fmt.Errorf(msg)
Errors(msg) == Errorf(msg, NoErr)

\* rsa.GenerateKey(rand.Reader, bits)
GenerateKeyFails(bits) == bits < 1024

\* x509.CreateCertificate(rand, template, parent, pub, priv) refuses a parent
\* whose public key is not the signer's; a template, as GenerateCA passes it
\* for the parent, has no public key
CreateCertificateFails(parent, priv) == parent.pub # 0 /\ parent.pub # priv
CreateCertificate(template, parent, pub, priv) ==
    [template EXCEPT !.issuer = parent.subject, !.pub = pub, !.signer = priv]

\* pem.Block in its encoding: the type tag and the bytes, which are the DER of
\* a certificate, of a key, or something else
PemCert(cert) == [pem |-> TRUE, tag |-> "CERTIFICATE", der |-> "cert", cert |-> cert, key |-> 0]
PemKey(key) == [pem |-> TRUE, tag |-> "RSA PRIVATE KEY", der |-> "key", cert |-> NoCert, key |-> key]
NoBytes == [pem |-> FALSE, tag |-> "", der |-> "", cert |-> NoCert, key |-> 0]

\* CAResult and CertResult
KeyPair(cert, key, certPEM, keyPEM) ==
    [cert |-> cert, key |-> key, certPEM |-> certPEM, keyPEM |-> keyPEM]
NoKeyPair == KeyPair(NoCert, 0, NoBytes, NoBytes)

CAConfigs == [o : {"Acme", "Other"}, c : {"US"}, bits : {0, 2048}]
CertConfigs ==
    [cn : {"alice", CACommonName}, o : {"Acme"}, c : {"US"},
     bits : {0, 2048}, isServer : BOOLEAN]

CATemplate(config) ==
    [NoCert EXCEPT !.subject = Name(config.o, config.c, CACommonName),
                   !.isCA = TRUE, !.certSign = TRUE,
                   !.eku = {ServerAuth, ClientAuthUsage}]

\* GenerateCA(config), key being the key rsa.GenerateKey returns
GenerateCA(config, key) ==
    IF GenerateKeyFails(config.bits)
    THEN [out |-> NoKeyPair, err |-> Errorf("failed to generate CA private key", ErrKeySize)]
    ELSE LET template == CATemplate(config)
             cert == CreateCertificate(template, template, key, key)
         IN  [out |-> KeyPair(cert, key, PemCert(cert), PemKey(key)), err |-> NoErr]

LeafTemplate(config) ==
    [NoCert EXCEPT !.subject = Name(config.o, config.c, config.cn),
                   !.eku = IF config.isServer THEN {ServerAuth}
                                              ELSE {ClientAuthUsage}]

\* GenerateCertificate(config, ca), key being the key rsa.GenerateKey returns
GenerateCertificateSelfSigned(config, ca, key) ==
    IF GenerateKeyFails(config.bits)
    THEN [out |-> NoKeyPair, err |-> Errorf("failed to generate private key", ErrKeySize)]
    ELSE LET template == LeafTemplate(config)
             cert == CreateCertificate(template, template, key, key)
         IN  [out |-> KeyPair(cert, key, PemCert(cert), PemKey(key)), err |-> NoErr]

GenerateCertificate(config, ca, key) ==
    IF GenerateKeyFails(config.bits)
    THEN [out |-> NoKeyPair, err |-> Errorf("failed to generate private key", ErrKeySize)]
    ELSE IF CreateCertificateFails(ca.cert, ca.key)
    THEN [out |-> NoKeyPair, err |-> Errorf("failed to create certificate", ErrKeyMismatch)]
    ELSE LET cert == CreateCertificate(LeafTemplate(config), ca.cert, key, ca.key)
         IN  [out |-> KeyPair(cert, key, PemCert(cert), PemKey(key)), err |-> NoErr]

\* --- the files ---
CaCertPath == "certs/ca/ca-cert.pem"
CaKeyPath == "certs/ca/ca-key.pem"
CertPath(cn) == "out/" \o cn \o "-cert.pem"
KeyPath(cn) == "out/" \o cn \o "-key.pem"
ClientNames == {"alice"}
Paths ==
    {CaCertPath, CaKeyPath} \cup {CertPath(cn) : cn \in ClientNames}
                            \cup {KeyPath(cn) : cn \in ClientNames}

\* a file: whether it exists, its permission bits and its bytes
File(exists, perm, data) == [exists |-> exists, perm |-> perm, data |-> data]
NoFile == File(FALSE, "", NoBytes)
Perms == {"0000", "0400", "0600", "0644"}
\* the tool runs as the owner of the files
Readable(perm) == perm # "0000"
Writable(perm) == perm \in {"0600", "0644"}

\* os.ReadFile(path)
ReadFile(fs, path) ==
    IF ~fs[path].exists THEN [data |-> NoBytes, err |-> ErrNotExist]
    ELSE IF ~Readable(fs[path].perm) THEN [data |-> NoBytes, err |-> ErrPermission]
    ELSE [data |-> fs[path].data, err |-> NoErr]

\* os.WriteFile(path, data, perm) opens with O_WRONLY|O_CREATE|O_TRUNC: perm
\* is given to a file it creates, a file that exists keeps its bits
WriteFile(fs, path, data, perm) ==
    IF ~fs[path].exists
    THEN [fs |-> [fs EXCEPT ![path] = File(TRUE, perm, data)], err |-> NoErr]
    ELSE IF ~Writable(fs[path].perm) THEN [fs |-> fs, err |-> ErrPermission]
    ELSE [fs |-> [fs EXCEPT ![path].data = data], err |-> NoErr]

\* SaveCAToFiles(ca, certPath, keyPath)
SaveCAToFilesSwapped(fs, ca, certPath, keyPath) ==
    LET w1 == WriteFile(fs, certPath, ca.keyPEM, "0644")
        w2 == WriteFile(w1.fs, keyPath, ca.certPEM, "0600")
    IN  IF w1.err # NoErr
        THEN [fs |-> w1.fs, err |-> Errorf("failed to write CA certificate", w1.err)]
        ELSE IF w2.err # NoErr
        THEN [fs |-> w2.fs, err |-> Errorf("failed to write CA private key", w2.err)]
        ELSE [fs |-> w2.fs, err |-> NoErr]

SaveCAToFiles(fs, ca, certPath, keyPath) ==
    LET w1 == WriteFile(fs, certPath, ca.certPEM, "0644")
        w2 == WriteFile(w1.fs, keyPath, ca.keyPEM, "0600")
    IN  IF w1.err # NoErr
        THEN [fs |-> w1.fs, err |-> Errorf("failed to write CA certificate", w1.err)]
        ELSE IF w2.err # NoErr
        THEN [fs |-> w2.fs, err |-> Errorf("failed to write CA private key", w2.err)]
        ELSE [fs |-> w2.fs, err |-> NoErr]

\* SaveCertToFiles(cert, certPath, keyPath)
SaveCertToFiles(fs, cert, certPath, keyPath) ==
    LET w1 == WriteFile(fs, certPath, cert.certPEM, "0644")
        w2 == WriteFile(w1.fs, keyPath, cert.keyPEM, "0600")
    IN  IF w1.err # NoErr
        THEN [fs |-> w1.fs, err |-> Errorf("failed to write certificate", w1.err)]
        ELSE IF w2.err # NoErr
        THEN [fs |-> w2.fs, err |-> Errorf("failed to write private key", w2.err)]
        ELSE [fs |-> w2.fs, err |-> NoErr]

\* LoadCA(certPath, keyPath)
LoadCA(fs, certPath, keyPath) ==
    LET certPEM == ReadFile(fs, certPath)
        block == certPEM.data
        keyPEM == ReadFile(fs, keyPath)
        keyBlock == keyPEM.data
        Failed(e) == [out |-> NoKeyPair, err |-> e]
    IN  IF certPEM.err # NoErr
        THEN Failed(Errorf("failed to read CA certificate", certPEM.err))
        ELSE IF ~block.pem \/ block.tag # "CERTIFICATE"
        THEN Failed(Errors("failed to decode CA certificate PEM"))
        ELSE IF block.der # "cert"
        THEN Failed(Errorf("failed to parse CA certificate", ErrMalformed))
        ELSE IF keyPEM.err # NoErr
        THEN Failed(Errorf("failed to read CA private key", keyPEM.err))
        ELSE IF ~keyBlock.pem \/ keyBlock.tag # "RSA PRIVATE KEY"
        THEN Failed(Errors("failed to decode CA private key PEM"))
        ELSE IF keyBlock.der # "key"
        THEN Failed(Errorf("failed to parse CA private key", ErrMalformed))
        ELSE [out |-> KeyPair(block.cert, keyBlock.key, block, keyBlock),
              err |-> NoErr]

\* CertManager.SignClientCert(config)
SignClientCertAsAsked(fs, config, key) ==
    LET ca == LoadCA(fs, CaCertPath, CaKeyPath)
        cert == GenerateCertificate(config, ca.out, key)
    IN  IF ca.err # NoErr
        THEN [out |-> NoKeyPair, err |-> Errorf("failed to load CA", ca.err)]
        ELSE IF cert.err # NoErr
        THEN [out |-> NoKeyPair,
              err |-> Errorf("failed to generate client certificate", cert.err)]
        ELSE [out |-> cert.out, err |-> NoErr]

SignClientCert(fs, config, key) ==
    LET ca == LoadCA(fs, CaCertPath, CaKeyPath)
        cert == GenerateCertificate([config EXCEPT !.isServer = FALSE], ca.out, key)
    IN  IF ca.err # NoErr
        THEN [out |-> NoKeyPair, err |-> Errorf("failed to load CA", ca.err)]
        ELSE IF cert.err # NoErr
        THEN [out |-> NoKeyPair,
              err |-> Errorf("failed to generate client certificate", cert.err)]
        ELSE [out |-> cert.out, err |-> NoErr]

\* CertManager.GenerateClientCert(commonName, outputDir, validDays, keySize)
GenerateClientCert(fs, commonName, keySize, key) ==
    LET ca == LoadCA(fs, CaCertPath, CaKeyPath)
        config == [cn |-> commonName, o |-> ClientOrganization, c |-> "US",
                   bits |-> keySize, isServer |-> FALSE]
        cert == GenerateCertificate(config, ca.out, key)
        saved == SaveCertToFiles(fs, cert.out, CertPath(commonName),
                                 KeyPath(commonName))
        Failed(e) == [fs |-> fs, out |-> NoKeyPair, err |-> e]
    IN  IF ca.err # NoErr THEN Failed(Errorf("failed to load CA", ca.err))
        ELSE IF cert.err # NoErr
        THEN Failed(Errorf("failed to generate client certificate", cert.err))
        ELSE IF saved.err # NoErr
        THEN [fs |-> saved.fs, out |-> cert.out,
              err |-> Errorf("failed to save client certificate", saved.err)]
        ELSE [fs |-> saved.fs, out |-> cert.out, err |-> NoErr]

\* Certificate.CheckSignatureFrom(parent)
CheckSignatureFrom(c, parent) ==
    parent.isCA /\ parent.certSign /\ parent.pub # 0 /\ c.signer = parent.pub

\* Certificate.Verify with Roots holding root alone and KeyUsages holding
\* usage, at an instant at which both certificates are current: a certificate
\* of the pool is its own chain, any other needs a parent in the pool whose
\* subject is its issuer and whose key signed it, and every certificate of
\* the chain must allow the usage
Verify(c, root, usage) ==
    IF c = root THEN usage \in c.eku
    ELSE /\ root.subject = c.issuer
         /\ CheckSignatureFrom(c, root)
         /\ usage \in c.eku
         /\ usage \in root.eku

\* --- the calls of the package, one at a time (the tool is run offline) ---
NoLast == [op |-> "", err |-> NoErr]
Called(op, r) == [op |-> op, err |-> r.err]
\* what a caller keeps of a leaf it was given: the CertResult, the CA it was
\* signed with, the function that produced it and the role that was asked for
Leaf(r, ca, by, isServer) == [cert |-> r.out, ca |-> ca, by |-> by, asked |-> isServer]

PkiIdle ==
    /\ nkeys = 0
    /\ cas = {}
    /\ loaded = {}
    /\ issued = {}
    /\ files = [p \in Paths |-> NoFile]
    /\ last = NoLast

\* the CA an earlier run generated with key k, and what earlier runs may have
\* left at the paths of the CA and at the path of a client key
EarlierCA(k) == GenerateCA([o |-> "Acme", c |-> "US", bits |-> 2048], k).out
JunkCert == [PemCert(NoCert) EXCEPT !.der = "junk"]
JunkKey == [PemKey(0) EXCEPT !.der = "junk"]
CaCertFiles ==
    {NoFile, File(TRUE, "0644", NoBytes), File(TRUE, "0644", JunkCert)}
    \cup {File(TRUE, "0644", PemKey(k)) : k \in EarlierKeys}
    \cup {File(TRUE, perm, PemCert(EarlierCA(k).cert)) :
             k \in EarlierKeys, perm \in {"0000", "0644"}}
CaKeyFiles ==
    {NoFile, File(TRUE, "0600", NoBytes), File(TRUE, "0600", JunkKey)}
    \cup {File(TRUE, "0600", PemCert(EarlierCA(k).cert)) : k \in EarlierKeys}
    \cup {File(TRUE, perm, PemKey(k)) : k \in EarlierKeys, perm \in Perms}
ClientKeyFiles ==
    {NoFile} \cup {File(TRUE, "0644", PemKey(k)) : k \in EarlierKeys}

PkiInit ==
    /\ nkeys = 0
    /\ cas = {}
    /\ loaded = {}
    /\ issued = {}
    /\ \E cf \in CaCertFiles, kf \in CaKeyFiles :
          \E of \in [{KeyPath(cn) : cn \in ClientNames} -> ClientKeyFiles] :
             files = [p \in Paths |->
                        IF p = CaCertPath THEN cf
                        ELSE IF p = CaKeyPath THEN kf
                        ELSE IF p \in DOMAIN of THEN of[p] ELSE NoFile]
    /\ last = NoLast

CallGenerateCA(config) ==
    LET r == GenerateCA(config, FreshKey)
    IN  /\ nkeys < MaxKeys
        /\ nkeys' = IF GenerateKeyFails(config.bits) THEN nkeys ELSE nkeys + 1
        /\ cas' = IF r.err = NoErr THEN cas \cup {r.out} ELSE cas
        /\ last' = Called("GenerateCA", r)
        /\ UNCHANGED <<loaded, issued, files, notPki>>

CallGenerateCertificate(config, ca) ==
    LET r == GenerateCertificate(config, ca, FreshKey)
    IN  /\ nkeys < MaxKeys
        /\ ca \in cas \cup loaded
        /\ nkeys' = IF GenerateKeyFails(config.bits) THEN nkeys ELSE nkeys + 1
        /\ issued' = IF r.err = NoErr
                     THEN issued \cup {Leaf(r, ca, "GenerateCertificate", config.isServer)}
                     ELSE issued
        /\ last' = Called("GenerateCertificate", r)
        /\ UNCHANGED <<cas, loaded, files, notPki>>

CallSaveCAToFiles(ca) ==
    LET r == SaveCAToFiles(files, ca, CaCertPath, CaKeyPath)
    IN  /\ ca \in cas
        /\ files' = r.fs
        /\ last' = Called("SaveCAToFiles", r)
        /\ UNCHANGED <<nkeys, cas, loaded, issued, notPki>>

CallLoadCA ==
    LET r == LoadCA(files, CaCertPath, CaKeyPath)
    IN  /\ loaded' = IF r.err = NoErr THEN loaded \cup {r.out} ELSE loaded
        /\ last' = Called("LoadCA", r)
        /\ UNCHANGED <<nkeys, cas, issued, files, notPki>>

CallSignClientCert(config) ==
    LET r == SignClientCert(files, config, FreshKey)
        ca == LoadCA(files, CaCertPath, CaKeyPath)
    IN  /\ nkeys < MaxKeys
        /\ nkeys' = IF ca.err # NoErr \/ GenerateKeyFails(config.bits)
                    THEN nkeys ELSE nkeys + 1
        /\ issued' = IF r.err = NoErr
                     THEN issued \cup {Leaf(r, ca.out, "SignClientCert", config.isServer)}
                     ELSE issued
        /\ last' = Called("SignClientCert", r)
        /\ UNCHANGED <<cas, loaded, files, notPki>>

CallGenerateClientCert(commonName, keySize) ==
    LET r == GenerateClientCert(files, commonName, keySize, FreshKey)
        ca == LoadCA(files, CaCertPath, CaKeyPath)
    IN  /\ nkeys < MaxKeys
        /\ nkeys' = IF ca.err # NoErr \/ GenerateKeyFails(keySize)
                    THEN nkeys ELSE nkeys + 1
        /\ issued' = IF r.out # NoKeyPair
                     THEN issued \cup {Leaf(r, ca.out, "GenerateClientCert", FALSE)}
                     ELSE issued
        /\ files' = r.fs
        /\ last' = Called("GenerateClientCert", r)
        /\ UNCHANGED <<cas, loaded, notPki>>

(***************************************************************************)
(* the clocks Run reads                                                    *)
(***************************************************************************)
ClockIdle ==
    /\ mono = 0
    /\ wall = 0
    /\ adjusted = FALSE

\* the process may start at any tick of a second of the wall clock
ClockInit ==
    /\ mono = 0
    /\ wall \in 0..(TicksPerSecond - 1)
    /\ adjusted = FALSE

\* time passes on both clocks
Tick ==
    /\ mono < MaxTime
    /\ wall < MaxTime
    /\ mono' = mono + 1
    /\ wall' = wall + 1
    /\ UNCHANGED <<adjusted, notClock>>

\* the wall clock is set back (by the operator, by a clock synchronisation);
\* the monotonic clock is not touched
SetBack(w) ==
    /\ ~adjusted
    /\ w < wall
    /\ wall' = w
    /\ adjusted' = TRUE
    /\ UNCHANGED <<mono, notClock>>

(***************************************************************************)
(* client: ambariClient.doRequest, its retries and its backoff             *)
(***************************************************************************)
\* the error of the k-th call of execute, the error doRequest builds from it
\* after n attempts, ctx.Err(), and no error
AttemptErr(k) == [kind |-> "attempt", attempts |-> 0, wraps |-> k]
FailedAfter(n, k) == [kind |-> "failed", attempts |-> n, wraps |-> k]
CtxErr == [kind |-> "context canceled", attempts |-> 0, wraps |-> 0]
NoClientErr == [kind |-> "nil", attempts |-> 0, wraps |-> 0]
\* what doRequest returns: the result of the k-th call of execute, or an error
NoReturn == [result |-> 0, err |-> NoClientErr]

\* backoff := time.Duration(attempt+1) * 100 * time.Millisecond
Backoff(a) == (a + 1) * BackoffStep

ClientIdle ==
    /\ retries = 0
    /\ method = ""
    /\ cpc = "idle"
    /\ attempt = 0
    /\ outcomes = <<>>
    /\ lastErr = NoClientErr
    /\ waits = <<>>
    /\ ctxDone = FALSE
    /\ woken = "none"
    /\ cret = NoReturn

\* Config.Retries: a number of retries, main configures 3
ClientInit ==
    /\ retries \in 0..MaxRetries
    /\ method = ""
    /\ cpc = "idle"
    /\ attempt = 0
    /\ outcomes = <<>>
    /\ lastErr = NoClientErr
    /\ waits = <<>>
    /\ ctxDone = FALSE
    /\ woken = "none"
    /\ cret = NoReturn

\* Get, Post, Put and Delete call doRequest with their method
Methods == {"GET", "POST", "PUT", "DELETE"}

\* doRequest is called: the loop starts with attempt 0 and calls execute
DoRequest(m) ==
    /\ cpc = "idle"
    /\ method' = m
    /\ cpc' = "execute"
    /\ attempt' = 0
    /\ UNCHANGED <<retries, outcomes, lastErr, waits, ctxDone, woken, cret, notClient>>

\* execute returns; with ctx done the request it makes fails.  On success
\* doRequest returns the result; on failure it keeps the error and either
\* starts the backoff before the next attempt or leaves the loop and returns
ExecuteReturnOneMore(outcome) ==
    /\ cpc = "execute"
    /\ ctxDone => outcome = "error"
    /\ outcomes' = Append(outcomes, outcome)
    /\ IF outcome = "ok"
       THEN /\ cret' = [result |-> Len(outcomes) + 1, err |-> NoClientErr]
            /\ cpc' = "done"
            /\ UNCHANGED <<attempt, lastErr, waits, woken>>
       ELSE /\ lastErr' = AttemptErr(Len(outcomes) + 1)
            /\ IF attempt <= retries
               THEN /\ waits' = Append(waits, Backoff(attempt))
                    /\ woken' = IF ctxDone THEN "ctx" ELSE "none"
                    /\ cpc' = "backoff"
                    /\ UNCHANGED <<attempt, cret>>
               ELSE /\ attempt' = attempt + 1
                    /\ cret' = [result |-> 0,
                                err |-> FailedAfter(retries + 1, lastErr'.wraps)]
                    /\ cpc' = "done"
                    /\ UNCHANGED <<waits, woken>>
    /\ UNCHANGED <<retries, method, ctxDone, notClient>>

ExecuteReturn(outcome) ==
    /\ cpc = "execute"
    /\ ctxDone => outcome = "error"
    /\ outcomes' = Append(outcomes, outcome)
    /\ IF outcome = "ok"
       THEN /\ cret' = [result |-> Len(outcomes) + 1, err |-> NoClientErr]
            /\ cpc' = "done"
            /\ UNCHANGED <<attempt, lastErr, waits, woken>>
       ELSE /\ lastErr' = AttemptErr(Len(outcomes) + 1)
            /\ IF attempt < retries
               THEN /\ waits' = Append(waits, Backoff(attempt))
                    /\ woken' = IF ctxDone THEN "ctx" ELSE "none"
                    /\ cpc' = "backoff"
                    /\ UNCHANGED <<attempt, cret>>
               ELSE /\ attempt' = attempt + 1
                    /\ cret' = [result |-> 0,
                                err |-> FailedAfter(retries + 1, lastErr'.wraps)]
                    /\ cpc' = "done"
                    /\ UNCHANGED <<waits, woken>>
    /\ UNCHANGED <<retries, method, ctxDone, notClient>>

\* the select of the backoff.  A goroutine blocked in select is completed by
\* the first of its channels to become ready, whenever it runs again: the
\* timer of time.After fires ...
TimerFire ==
    /\ cpc = "backoff"
    /\ woken = "none"
    /\ woken' = "timer"
    /\ UNCHANGED <<retries, method, cpc, attempt, outcomes, lastErr, waits, ctxDone, cret,
                   notClient>>

\* ... or the caller cancels ctx
CtxCancel ==
    /\ ~ctxDone
    /\ cpc # "done"
    /\ ctxDone' = TRUE
    /\ woken' = IF cpc = "backoff" /\ woken = "none" THEN "ctx" ELSE woken
    /\ UNCHANGED <<retries, method, cpc, attempt, outcomes, lastErr, waits, cret, notClient>>

\* case <-time.After(backoff): the loop goes on to the next attempt
BackoffElapsedRegardless ==
    /\ cpc = "backoff"
    /\ woken # "none"
    /\ attempt' = attempt + 1
    /\ woken' = "none"
    /\ cpc' = "execute"
    /\ UNCHANGED <<retries, method, outcomes, lastErr, waits, ctxDone, cret, notClient>>

BackoffElapsed ==
    /\ cpc = "backoff"
    /\ woken = "timer"
    /\ attempt' = attempt + 1
    /\ woken' = "none"
    /\ cpc' = "execute"
    /\ UNCHANGED <<retries, method, outcomes, lastErr, waits, ctxDone, cret, notClient>>

\* case <-ctx.Done(): doRequest returns ctx.Err()
BackoffCancelled ==
    /\ cpc = "backoff"
    /\ woken = "ctx"
    /\ cret' = [result |-> 0, err |-> CtxErr]
    /\ cpc' = "done"
    /\ UNCHANGED <<retries, method, attempt, outcomes, lastErr, waits, ctxDone, woken,
                   notClient>>

Init ==
    /\ ExecInit
    /\ RegistryStarted /\ RegProcsInit
    /\ ServerIdle
    /\ PermIdle
    /\ AuthIdle
    /\ TransportIdle
    /\ PkiIdle
    /\ ClockIdle
    /\ ClientIdle
    /\ MainIdle
    /\ ValIdle

Next ==
    \/ \E i \in Invs, op \in Delegates, args \in ArgMaps, a \in Identities :
          RunAuthorize(i, op, args, a)
    \/ \E i \in Invs : RunValidate(i)
    \/ \E i \in Invs : RunExecute(i)
    \/ \E i \in Invs, outcome \in ExecuteOutcomes : RunReport(i, outcome)
    \/ \E name \in {OpOpen.Name, "ambari_unknown"} : ReadLock(1, "Get", name)
    \/ ReadBody(1)
    \/ ReadUnlock(1)
    \/ Return(1)

Spec == Init /\ [][Next]_vars

\* the server of main on any transport; enabled is the flag NewMiddleware is
\* given: main passes false, the Middleware type takes either value
InitServer ==
    /\ ExecInit
    /\ RegistryStarted /\ RegProcsInit
    /\ mode \in Modes
    /\ mwEnabled \in BOOLEAN
    /\ req = [r \in Reqs |-> NoRequest]
    /\ PermIdle
    /\ AuthIdle
    /\ TransportIdle
    /\ PkiIdle
    /\ ClockIdle
    /\ ClientIdle
    /\ MainIdle
    /\ ValIdle

NextServer ==
    \/ \E r \in Reqs, h \in HeaderMaps : Arrive(r, h)
    \/ \E r \in Reqs : Handler(r)
    \/ \E r \in Reqs, op \in Delegates, args \in ArgMaps : ToolHandler(r, op, args)
    \/ \E i \in Invs : RunValidate(i)
    \/ \E i \in Invs : RunExecute(i)
    \/ \E i \in Invs, outcome \in ExecuteOutcomes : RunReport(i, outcome)

SpecServer == InitServer /\ [][NextServer]_vars

InitRegistry ==
    /\ ExecInit
    /\ NewRegistry /\ RegProcsInit
    /\ ServerIdle
    /\ PermIdle
    /\ AuthIdle
    /\ TransportIdle
    /\ PkiIdle
    /\ ClockIdle
    /\ ClientIdle
    /\ MainIdle
    /\ ValIdle

SpecRegistry == InitRegistry /\ [][RegistryNext]_vars

\* the registry with callers that write to the slices they were returned
NextSnapshots ==
    \/ RegistryNext
    \/ \E p \in Procs : CallerModify(p, OpMulti)

SpecSnapshots == InitRegistry /\ [][NextSnapshots]_vars

InitPerm ==
    /\ ExecInit
    /\ NewRegistry /\ RegProcsInit
    /\ ServerIdle
    /\ PermInit
    /\ AuthIdle
    /\ TransportIdle
    /\ PkiIdle
    /\ ClockIdle
    /\ ClientIdle
    /\ MainIdle
    /\ ValIdle

NextPerm == ApplyHasAll

SpecPerm == InitPerm /\ [][NextPerm]_vars

InitAuth ==
    /\ ExecInit
    /\ NewRegistry /\ RegProcsInit
    /\ ServerIdle
    /\ PermIdle
    /\ AuthInit
    /\ TransportIdle
    /\ PkiIdle
    /\ ClockIdle
    /\ ClientIdle
    /\ MainIdle
    /\ ValIdle

NextAuth == ApplyAuthenticate

SpecAuth == InitAuth /\ [][NextAuth]_vars

\* main from the parsed flag on, with the middleware as main constructs it
InitTransport ==
    /\ ExecInit
    /\ RegistryStarted /\ RegProcsInit
    /\ mode \in FlagModes
    /\ mwEnabled = FALSE
    /\ req = [r \in Reqs |-> NoRequest]
    /\ PermIdle
    /\ AuthIdle
    /\ TransportInit
    /\ PkiIdle
    /\ ClockIdle
    /\ ClientIdle
    /\ MainIdle
    /\ ValIdle

NextTransport ==
    \/ Factory
    \/ StartLoadCert
    \/ StartReadCA
    \/ StartParseCA
    \/ StartListen
    \/ Cancel
    \/ ShutdownClose
    \/ ServeReturn
    \/ Fatal
    \/ \E c \in Reqs, cert \in CertKinds : Accept(c, cert)
    \/ \E c \in Reqs : Handshake(c)
    \/ \E c \in Reqs : ServeArrive(c, NoHeaders)
    \/ \E c \in Reqs : ServeHandler(c)
    \/ \E c \in Reqs, args \in ArgMaps : ServeToolHandler(c, OpRestart, args)
    \/ \E i \in Invs : ServeValidate(i)
    \/ \E i \in Invs : ServeExecute(i)
    \/ \E i \in Invs, outcome \in ExecuteOutcomes : ServeReport(i, outcome)

SpecTransport == InitTransport /\ [][NextTransport]_vars

\* the life of the transport alone: the start, the connections and the
\* requests read from them, the shutdown
NextLifecycle ==
    \/ Factory
    \/ StartLoadCert
    \/ StartReadCA
    \/ StartParseCA
    \/ StartListen
    \/ Cancel
    \/ ShutdownClose
    \/ ServeReturn
    \/ Fatal
    \/ \E c \in Reqs, cert \in CertKinds : Accept(c, cert)
    \/ \E c \in Reqs : Handshake(c)
    \/ \E c \in Reqs : ServeArrive(c, NoHeaders)

\* with the goroutines scheduled: main (Factory, the steps of Start, Fatal),
\* the shutdown goroutine of Start and the accept loop take their step once
\* it stays possible
SpecLifecycle ==
    /\ InitTransport
    /\ [][NextLifecycle]_vars
    /\ WF_vars(Factory)
    /\ WF_vars(StartLoadCert)
    /\ WF_vars(StartReadCA)
    /\ WF_vars(StartParseCA)
    /\ WF_vars(StartListen)
    /\ WF_vars(ShutdownClose)
    /\ WF_vars(ServeReturn)
    /\ WF_vars(Fatal)

\* the certificate tool: calls of the certs package on the files an earlier
\* run may have left
InitCerts ==
    /\ ExecInit
    /\ NewRegistry /\ RegProcsInit
    /\ ServerIdle
    /\ PermIdle
    /\ AuthIdle
    /\ TransportIdle
    /\ PkiInit
    /\ ClockIdle
    /\ ClientIdle
    /\ MainIdle
    /\ ValIdle

NextCerts ==
    \/ \E config \in CAConfigs : CallGenerateCA(config)
    \/ \E config \in CertConfigs, ca \in cas \cup loaded :
          CallGenerateCertificate(config, ca)
    \/ \E ca \in cas : CallSaveCAToFiles(ca)
    \/ CallLoadCA
    \/ \E config \in CertConfigs : CallSignClientCert(config)
    \/ \E cn \in ClientNames, keySize \in {0, 2048} : CallGenerateClientCert(cn, keySize)

SpecCerts == InitCerts /\ [][NextCerts]_vars

\* Run against the clocks: the invocations of the first goroutine, with time
\* passing and the wall clock set back between the steps
InitClock ==
    /\ ExecInit
    /\ RegistryStarted /\ RegProcsInit
    /\ ServerIdle
    /\ PermIdle
    /\ AuthIdle
    /\ TransportIdle
    /\ PkiIdle
    /\ ClockInit
    /\ ClientIdle
    /\ MainIdle
    /\ ValIdle

NextClock ==
    \/ \E args \in ArgMaps, a \in Identities : RunAuthorize(1, OpRestart, args, a)
    \/ RunValidate(1)
    \/ RunExecute(1)
    \/ \E outcome \in ExecuteOutcomes : RunReport(1, outcome)
    \/ Tick
    \/ \E w \in 0..MaxTime : SetBack(w)

SpecClock == InitClock /\ [][NextClock]_vars

\* one doRequest call of a client, with the caller free to cancel ctx
InitClient ==
    /\ ExecInit
    /\ RegistryStarted /\ RegProcsInit
    /\ ServerIdle
    /\ PermIdle
    /\ AuthIdle
    /\ TransportIdle
    /\ PkiIdle
    /\ ClockIdle
    /\ ClientInit
    /\ MainIdle
    /\ ValIdle

NextClient ==
    \/ \E m \in Methods : DoRequest(m)
    \/ \E outcome \in ExecuteOutcomes : ExecuteReturn(outcome)
    \/ TimerFire
    \/ BackoffElapsed
    \/ BackoffCancelled
    \/ CtxCancel

SpecClient == InitClient /\ [][NextClient]_vars

\* with the goroutine of doRequest scheduled, every call of execute returning
\* (the http.Client has a Timeout) and every timer firing
SpecClientFair ==
    /\ InitClient
    /\ [][NextClient]_vars
    /\ WF_vars(\E m \in Methods : DoRequest(m))
    /\ WF_vars(\E outcome \in ExecuteOutcomes : ExecuteReturn(outcome))
    /\ WF_vars(TimerFire)
    /\ WF_vars(BackoffElapsed)
    /\ WF_vars(BackoffCancelled)

\* the startup of main under every setting of ENABLE_ACTIONABLE_TOOLS
InitMain ==
    /\ ExecInit
    /\ NewRegistry /\ RegProcsInit
    /\ ServerIdle
    /\ PermIdle
    /\ AuthIdle
    /\ TransportIdle
    /\ PkiIdle
    /\ ClockIdle
    /\ ClientIdle
    /\ MainInit
    /\ ValIdle

NextMain ==
    \/ MainRegisterReadOnly
    \/ MainReadEnv
    \/ MainRegisterActionable
    \/ MainAll
    \/ MainRegisterTool

SpecMain == InitMain /\ [][NextMain]_vars

\* Validate, then Execute, of every capability on every argument map
InitValidation ==
    /\ ExecInit
    /\ RegistryStarted /\ RegProcsInit
    /\ ServerIdle
    /\ PermIdle
    /\ AuthIdle
    /\ TransportIdle
    /\ PkiIdle
    /\ ClockIdle
    /\ ClientIdle
    /\ MainIdle
    /\ ValInit

NextValidation ==
    \/ ApplyValidate
    \/ ApplyExecute

SpecValidation == InitValidation /\ [][NextValidation]_vars

(***************************************************************************)
(* Properties of Executor.Run (checked under Spec)                         *)
(***************************************************************************)
\* invocation i has been started
Started(i) == pc[i] # "idle"

\* the required permissions of i's capability that i's identity does not hold
Missing(i) ==
    {q \in Range(call[i].op.Permissions) : q \notin Range(call[i].authCtx.Permissions)}

\* Run has returned to its caller
Returned(i) == pc[i] = "done"

\* C1: when the identity lacks at least one permission the capability
\* requires, Run returns an error (and no result) and neither Validate nor
\* Execute of the delegate is ever called: both call counters stay at 0.
C1_DeniedNeverReachesDelegate ==
    \A i \in Invs :
        (Started(i) /\ Missing(i) # {}) =>
            /\ Returned(i)
            /\ IsError(err[i])
            /\ result[i] = NoResult
            /\ calls[i].validate = 0
            /\ calls[i].execute = 0

\* C1 witness: a denied call: the identity holds one of the two permissions
\* required, and Run has returned
C1_Witness ==
    \E i \in Invs :
        /\ Returned(i)
        /\ Missing(i) # {}
        /\ Missing(i) # Range(call[i].op.Permissions)
        /\ err[i].msg = "insufficient permissions"

Lifecycle == <<"Authorize", "Validate", "Execute", "Report">>

\* C3: the steps of every invocation are a prefix of Authorize, Validate,
\* Execute, Report: each step is entered at most once, in that order, only
\* after the step before it succeeded, and a result envelope exists only
\* after Execute returned without error.
C3_LifecycleOrder ==
    \A i \in Invs :
        /\ Len(steps[i]) <= Len(Lifecycle)
        /\ steps[i] = SubSeq(Lifecycle, 1, Len(steps[i]))
        /\ calls[i].validate <= 1 /\ calls[i].execute <= 1
        /\ Started(i) <=> Len(steps[i]) >= 1
        /\ Len(steps[i]) >= 2 => (Missing(i) = {} /\ calls[i].validate = 1)
        /\ Len(steps[i]) >= 3 =>
              (Validate(call[i].op, call[i].args) = Nil /\ calls[i].execute = 1)
        /\ Len(steps[i]) = 4 => (calls[i].returned = "ok" /\ ~IsError(err[i]))
        /\ result[i] # NoResult <=> Len(steps[i]) = 4
        /\ result[i] # NoResult => Returned(i)

\* C3 witness: an invocation that went through all four steps
C3_Witness ==
    \E i \in Invs : Returned(i) /\ steps[i] = Lifecycle /\ result[i] # NoResult

\* C4: whatever the identity's permissions, when the capability's Validate
\* rejects the arguments Execute is never called, and the error Run returns
\* names the capability.
C4_InvalidArgsNeverExecute ==
    \A i \in Invs :
        (Started(i) /\ Validate(call[i].op, call[i].args) # Nil) =>
            /\ calls[i].execute = 0
            /\ pc[i] \in {"validate", "done"}
            /\ Returned(i) =>
                  /\ IsError(err[i])
                  /\ err[i].capability = call[i].op.Name
                  /\ result[i] = NoResult

\* C4 witness: Validate ran, rejected the arguments, and Run returned
C4_Witness ==
    \E i \in Invs :
        /\ Returned(i)
        /\ calls[i].validate = 1
        /\ err[i].msg = "validation failed"
        /\ err[i].cause = "clusterName"

\* Run returned the authorization error
Denied(i) == Returned(i) /\ err[i].msg = "insufficient permissions"

C6_ExecuteErrorWrappedNoRetry ==
    \A i \in Invs :
        /\ calls[i].execute <= 1
        /\ calls[i].returned = "error" =>
              /\ Returned(i)
              /\ result[i] = NoResult
              /\ err[i].msg = "operation failed"
              /\ err[i].capability = call[i].op.Name
              /\ err[i].cause = "delegate error"
              /\ calls[i].execute = 1

\* C6 witness: an invocation whose delegate failed
C6_Witness ==
    \E i \in Invs :
        Returned(i) /\ calls[i].returned = "error" /\ err[i].msg = "operation failed"

\* C7: while the Execute of one invocation has not returned, every step of
\* every other invocation can still be taken (its start, its Validate, its call
\* of Execute, its return), the registry's lock is not held on behalf of any
\* invocation, and a registry lookup can take its read lock.
C7_NoLockAcrossExecute ==
    \A i \in Invs :
        pc[i] = "executing" =>
            /\ \A j \in Invs \ {i} :
                  /\ pc[j] = "idle" =>
                        \A op \in Delegates, args \in ArgMaps, a \in Identities :
                            ENABLED RunAuthorize(j, op, args, a)
                  /\ pc[j] = "validate" => ENABLED RunValidate(j)
                  /\ pc[j] = "execute" => ENABLED RunExecute(j)
                  /\ pc[j] = "executing" =>
                        \A outcome \in ExecuteOutcomes : ENABLED RunReport(j, outcome)
            /\ mu.writer = 0
            /\ rpc[1] = "idle" => ENABLED ReadLock(1, "Get", OpOpen.Name)
            /\ rpc[1] = "read" => ENABLED ReadBody(1)

\* C7 witness: one invocation is still inside Execute, another one has gone
\* through all its steps, and a lookup has returned an operation
C7_Witness ==
    \E i, j \in Invs :
        /\ i # j
        /\ pc[i] = "executing"
        /\ Returned(j) /\ steps[j] = Lifecycle
        /\ rpc[1] = "returned" /\ rret[1].ok

(***************************************************************************)
(* Properties of the tool-call path (checked under SpecServer)             *)
(***************************************************************************)
\* C2: for a tool call that arrived over an HTTP-family transport, the
\* identity Run authorizes against is the identity the middleware stored in
\* the request context, and a call whose stored identity lacks a permission
\* the capability requires is denied; only over stdio does Run get the fixed
\* local identity.
C2_RunUsesRequestIdentity ==
    \A r \in Reqs :
        (req[r].at = "run" /\ mode \in HTTPFamily) =>
            /\ call[r].authCtx = req[r].ctxAuth
            /\ call[r].authCtx # StdioIdentity
            /\ ~HasAllPermissions(req[r].ctxAuth.Permissions, call[r].op.Permissions) =>
                  /\ Returned(r)
                  /\ IsError(err[r])
                  /\ calls[r].execute = 0

(***************************************************************************)
(* Properties of the Registry (checked under SpecRegistry)                 *)
(***************************************************************************)
\* the goroutine is inside Register and its name is a duplicate: it holds the
\* lock and is about to find the name, or it has found it
Duplicate(p) ==
    /\ rcall[p].kind = "Register"
    /\ \/ rpc[p] = "reg_check" /\ rcall[p].name \in DOMAIN ops
       \/ rpc[p] = "reg_unlock" /\ rret[p].err # Nil

\* C8: a Register call whose name is already held fails with an error, and
\* from the moment it holds the lock to its return the name map and both type
\* lists stay as they were: Get(name) returns the first-registered operation
\* and the three counts are unchanged.
C8_DuplicateRegisterFails ==
    [][\A p \in Procs :
          Duplicate(p) =>
              /\ ops' = ops
              /\ readonly' = readonly
              /\ actionable' = actionable
              /\ Get(rcall[p].name).op = ops'[rcall[p].name]
              /\ (rpc[p] = "reg_check" /\ rpc'[p] # "reg_check") =>
                    /\ rpc'[p] = "reg_unlock"
                    /\ rret'[p].err = "already registered"
              /\ (rpc[p] = "reg_unlock" /\ rpc'[p] # "reg_unlock") =>
                    /\ rpc'[p] = "returned"
                    /\ rret'[p].err = "already registered"]_vars

\* C8 witness: a Register call of a second operation under a held name has
\* returned its error, and the name still maps to the first operation
C8_Witness ==
    \E p \in Procs :
        /\ rcall[p].kind = "Register"
        /\ rpc[p] = "returned"
        /\ rret[p].err = "already registered"
        /\ ops[rcall[p].name] # rcall[p].op
        /\ Cardinality(DOMAIN ops) = 1 /\ Len(readonly) + Len(actionable) = 1

\* the name map and the two type lists hold the same operations
Consistent ==
    /\ \A n \in DOMAIN ops :
          /\ ops[n].Type = ReadOnly => ops[n] \in Range(readonly)
          /\ ops[n].Type = Actionable => ops[n] \in Range(actionable)
    /\ \A o \in Range(readonly) \cup Range(actionable) :
          o.Name \in DOMAIN ops /\ ops[o.Name] = o
    /\ Cardinality(DOMAIN ops) = Len(readonly) + Len(actionable)

\* the goroutine has read the registry (and may have returned)
HasRead(p) == rcall[p].kind \in ReadKinds /\ rpc[p] \in {"runlock", "returned"}

\* the goroutine is inside Register, past the duplicate check
PastCheck(p) ==
    rcall[p].kind = "Register" /\ rpc[p] \in {"reg_insert", "reg_append", "reg_unlock",
                                               "returned"}

\* C9: the writer holds the lock alone and readers share it; whenever a
\* reader holds the lock (and whenever no writer does) the name map and the
\* type lists agree, so no read sees a half-made registration: a Count adds
\* up, and an operation a Get or an All returned is in the list of its type;
\* and of the Register calls of one name exactly one inserts it, every other
\* one fails.
C9_ReadersSeeWholeRegistrations ==
    /\ mu.writer # 0 => mu.readers = {}
    /\ mu.writer # 0 =>
          rcall[mu.writer].kind = "Register"
          /\ rpc[mu.writer] \in {"reg_check", "reg_insert", "reg_append", "reg_unlock"}
    /\ \A p \in Procs :
          (rcall[p].kind = "Register" /\ rpc[p] # "returned") => mu.writer = p
    /\ \A p \in Procs : p \in mu.readers <=> rpc[p] \in {"read", "runlock"}
    /\ (mu.readers # {} \/ mu.writer = 0) => Consistent
    /\ \A p \in Procs :
          HasRead(p) =>
              /\ rcall[p].kind = "Count" => rret[p].total = rret[p].ro + rret[p].act
              /\ (rcall[p].kind = "Get" /\ rret[p].ok) =>
                    rret[p].op \in Range(readonly) \cup Range(actionable)
              /\ rcall[p].kind = "All" =>
                    rret[p].set \subseteq Range(readonly) \cup Range(actionable)
    /\ \A n \in Names :
          /\ registered[n] <= 1
          /\ registered[n] = 1 <=> n \in DOMAIN ops
    /\ \A p \in Procs :
          (PastCheck(p) /\ rret[p].err # Nil) => registered[rcall[p].name] = 1
    /\ \A p, q \in Procs :
          (p # q /\ PastCheck(p) /\ PastCheck(q) /\ rcall[p].name = rcall[q].name) =>
              (rret[p].err # Nil \/ rret[q].err # Nil)

\* C9 witness: two Register calls of one name have both returned, one with
\* an error and one without
C9_Witness ==
    \E p, q \in Procs :
        /\ p # q
        /\ rcall[p].kind = "Register" /\ rcall[q].kind = "Register"
        /\ rcall[p].name = rcall[q].name
        /\ rpc[p] = "returned" /\ rpc[q] = "returned"
        /\ rret[p].err = Nil /\ rret[q].err # Nil

(***************************************************************************)
(* Properties of the permission model (checked under SpecPerm)             *)
(***************************************************************************)
\* C10: HasAllPermissions(required...) is true exactly when every required
\* permission occurs in the identity's permission slice; it is true for an
\* empty required list and false as soon as one required permission is absent.
C10_HasAllIffSubset ==
    permDone =>
        /\ hasAllOut <=> (\A k \in 1..Len(reqIn) : \E j \in 1..Len(permIn) :
                              permIn[j] = reqIn[k])
        /\ reqIn = <<>> => hasAllOut
        /\ (\E k \in 1..Len(reqIn) : reqIn[k] \notin Range(permIn)) => ~hasAllOut

\* C10 witness: the first required permission is held, the second is not,
\* and the answer is false
C10_Witness ==
    /\ permDone
    /\ Len(reqIn) = 2
    /\ reqIn[1] \in Range(permIn)
    /\ reqIn[2] \notin Range(permIn)
    /\ ~hasAllOut

(***************************************************************************)
(* Properties of LDAPProvider.Authenticate (checked under SpecAuth)        *)
(***************************************************************************)
\* the value of a header of the drawn map, "" when the header is absent
Sent(key) == IF key \in DOMAIN authIn THEN authIn[key] ELSE ""

\* C11: the username is the primary header's value when that is non-empty,
\* otherwise the secondary header's; Authenticate fails, with an error and no
\* identity, exactly when neither header holds a non-empty value.
C11_UsernameFromPrimaryThenSecondary ==
    authDone =>
        /\ authOut.err # Nil <=> (Sent(NameKey) = "" /\ Sent(UsernameKey) = "")
        /\ authOut.err # Nil => authOut.ctx = NoAuth
        /\ authOut.err = Nil => authOut.ctx # NoAuth
        /\ Sent(NameKey) # "" => authOut.ctx.Username = Sent(NameKey)
        /\ (Sent(NameKey) = "" /\ Sent(UsernameKey) # "") =>
              authOut.ctx.Username = Sent(UsernameKey)

\* C11 witness: both headers were sent with different names and the primary
\* one was taken
C11_Witness ==
    /\ authDone
    /\ Sent(NameKey) = "alice"
    /\ Sent(UsernameKey) = "bob"
    /\ authOut.err = Nil
    /\ authOut.ctx.Username = "alice"

\* the positions of the identity's groups that have a mapping
Matched == {k \in 1..Len(authOut.ctx.Groups) : authOut.ctx.Groups[k] \in DOMAIN GroupMappings}

AllPermissions ==
    {ClusterView, ClusterAdmin, ServiceView, ServiceOperate, ServiceRestart,
     ServiceAdmin, HostView, HostManage, AlertView, AlertManage, AlertAdmin,
     ConfigView, ConfigModify}

\* request r has left the middleware
PastMiddleware(r) == mode \in HTTPFamily /\ req[r].at \notin {"new", "middleware"}

\* C13: with auth disabled the provider is never called, and every request,
\* whatever its headers, goes on to the next handler with one and the same
\* identity in its context: source "disabled", not validated, holding every
\* defined permission.
C13_DisabledAuthFixedIdentity ==
    ~mwEnabled =>
        /\ \A r \in Reqs : req[r].provider = 0
        /\ \A r \in Reqs :
              PastMiddleware(r) =>
                  /\ req[r].at \in {"tool", "run"}
                  /\ req[r].status = 0
                  /\ req[r].ctxAuth.Source = "disabled"
                  /\ ~req[r].ctxAuth.IsValidated
                  /\ AllPermissions \subseteq Range(req[r].ctxAuth.Permissions)
        /\ \A r, q \in Reqs :
              (PastMiddleware(r) /\ PastMiddleware(q)) => req[r].ctxAuth = req[q].ctxAuth

\* C13 witness: two requests, one without a user name and one of a viewer,
\* have both passed the disabled middleware
C13_Witness ==
    /\ ~mwEnabled
    /\ \E r, q \in Reqs :
          /\ PastMiddleware(r) /\ PastMiddleware(q)
          /\ req[r].headers = NoHeaders
          /\ req[q].headers = HeadersViewer

(***************************************************************************)
(* Properties of the transports (checked under SpecTransport and           *)
(* SpecLifecycle)                                                          *)
(***************************************************************************)
\* the connection presents no certificate the CA bundle vouches for today
BadCert(c) == conn[c].cert \in {"none", "expired", "unknown-ca"}

\* the handshake of connection c succeeds
Admitted(c) == Handshake(c) /\ conn'[c].at = "accepted"

\* C14: on mtls a connection without a client certificate, with an expired
\* one or with one of another CA never gets past the TLS handshake: the
\* middleware, the tool handler and Executor.Run never run for it; and a
\* connection with a valid certificate is admitted whatever became of the
\* others.
C14_MTLSRejectsBeforeApplication ==
    mode = ModeMTLS =>
        /\ \A c \in Reqs :
              (conn[c].at # "none" /\ BadCert(c)) =>
                  /\ conn[c].at \in {"handshake", "rejected", "closed"}
                  /\ req[c] = NoRequest
                  /\ pc[c] = "idle" /\ calls[c].validate = 0 /\ calls[c].execute = 0
        /\ \A c \in Reqs :
              (conn[c].at = "handshake" /\ ~BadCert(c) /\ phase # "exited") =>
                  ENABLED Admitted(c)

\* C14 witness: one connection without a certificate was rejected, and the
\* invocation of another, with a valid certificate, is running
C14_Witness ==
    /\ mode = ModeMTLS
    /\ \E c, d \in Reqs :
          /\ conn[c].cert = "none" /\ conn[c].at = "rejected"
          /\ conn[d].cert = "valid" /\ pc[d] = "executing"

\* the fault is one the Start of this mode runs into
StartupFails ==
    \/ mode \notin Modes
    \/ mode \in {ModeSSL, ModeMTLS} /\ fault = "cert"
    \/ mode = ModeMTLS /\ fault \in {"ca-read", "ca-parse"}
    \/ mode \in HTTPFamily /\ fault = "bind"

\* nothing has been served: no connection taken, no request, no invocation
NothingServed ==
    \A c \in Reqs : conn[c] = NoConn /\ req[c] = NoRequest /\ pc[c] = "idle"

\* C15: when the start of a transport fails (mode unknown to Factory,
\* certificate or key unreadable on ssl and mtls, CA bundle unreadable or
\* without a certificate on mtls, address not free on the HTTP family), the
\* transport never serves, Factory or Start returns an error to main, and
\* the process exits.
C15_StartupFailureIsFatal ==
    /\ [](StartupFails => phase # "serving" /\ NothingServed)
    /\ [](StartupFails /\ phase \in {"failed", "exited"} => startErr # Nil)
    /\ (StartupFails ~> phase = "exited")

\* C15 witness: mtls with a CA bundle that holds no certificate has exited
C15_Witness ==
    /\ mode = ModeMTLS /\ fault = "ca-parse"
    /\ phase = "exited"
    /\ startErr = "failed to parse CA certificate"

\* C16: once an HTTP-family transport serves, cancelling the context leads to
\* the server being closed and Start returning; no connection is taken once
\* the server is closed; and the server is closed only after the context was
\* cancelled.
C16_CancelStopsServing ==
    /\ ((mode \in HTTPFamily /\ phase = "serving" /\ cancelled)
           ~> (closed /\ phase \in {"failed", "exited"} /\ startErr = ErrServerClosed))
    /\ [][closed => \A c \in Reqs : conn[c].at = "none" => conn'[c].at = "none"]_vars
    /\ [](closed => cancelled)
    /\ [](startErr = ErrServerClosed => closed)

\* C16 witness: Start has returned after the shutdown; one connection had been
\* taken before, another client never got one
C16_Witness ==
    /\ mode \in HTTPFamily
    /\ closed /\ phase = "failed" /\ startErr = ErrServerClosed
    /\ \E c, d \in Reqs : conn[c].at = "closed" /\ conn[d].at = "none"

\* C17: an invocation that is past Authorize when the context is cancelled
\* runs on to its end: the process does not exit while an invocation is
\* between its start and its return.
C17_InFlightInvocationFinishes ==
    (mode \in HTTPFamily /\ phase = "exited") =>
        \A i \in Invs : Started(i) => Returned(i)

(***************************************************************************)
(* Properties of the certs package (checked under SpecCerts)               *)
(***************************************************************************)
\* the usage a leaf is verified for: the one of the role it was issued for
RoleUsage(l) == IF l.cert.cert.eku = {ServerAuth} THEN ServerAuth ELSE ClientAuthUsage
SelfSigned(c) == c.issuer = c.subject /\ c.signer = c.pub
\* the CAs the caller holds
Held == cas \cup loaded

\* C18: a certificate GenerateCA produced is self-signed (its issuer is its
\* subject, the key that signed it is its own) and verifies as a root; a
\* certificate GenerateCertificate produced with CA X is signed by the
\* private key of X, is not signed by its own key, verifies when chained to
\* X and fails to verify when chained to any other CA.
C18_LeafChainsToItsCAOnly ==
    /\ \A ca \in cas :
          /\ SelfSigned(ca.cert)
          /\ ca.key = ca.cert.pub
          /\ CheckSignatureFrom(ca.cert, ca.cert)
          /\ \A usage \in {ServerAuth, ClientAuthUsage} : Verify(ca.cert, ca.cert, usage)
    /\ \A l \in issued :
          /\ l.cert.cert.signer = l.ca.key
          /\ l.cert.cert.issuer = l.ca.cert.subject
          /\ l.cert.cert.signer # l.cert.cert.pub
          /\ Verify(l.cert.cert, l.ca.cert, RoleUsage(l))
          /\ \A other \in Held :
                other.cert # l.ca.cert =>
                   \A usage \in {ServerAuth, ClientAuthUsage} :
                      ~Verify(l.cert.cert, other.cert, usage)

\* a leaf was issued by a CA of this run while the caller holds another CA of
\* the same subject
C18_Witness ==
    /\ \E l \in issued, other \in Held :
          /\ l.by = "GenerateCertificate"
          /\ l.ca \in cas
          /\ other.cert # l.ca.cert
          /\ other.cert.subject = l.ca.cert.subject

\* C19: a leaf GenerateCertificate produced carries exactly one extended key
\* usage, serverAuth when the server role was asked for and clientAuth when
\* the client role was, never both and never none; a leaf of
\* CertManager.SignClientCert or GenerateClientCert carries clientAuth alone,
\* whatever role the configuration asked for.
C19_OneUsageMatchingRole ==
    \A l \in issued :
       /\ Cardinality(l.cert.cert.eku) = 1
       /\ l.by = "GenerateCertificate" =>
             l.cert.cert.eku = (IF l.asked THEN {ServerAuth} ELSE {ClientAuthUsage})
       /\ l.by \in {"SignClientCert", "GenerateClientCert"} =>
             l.cert.cert.eku = {ClientAuthUsage}

\* SignClientCert issued a leaf for a configuration asking for the server
\* role, and GenerateCertificate issued a leaf of the server role
C19_Witness ==
    /\ \E l \in issued : l.by = "SignClientCert" /\ l.asked
    /\ \E l \in issued : l.by = "GenerateCertificate" /\ l.asked

\* what a caller can tell an error by without reading its message: its
\* dynamic type and what errors.Is finds in it
ErrKind(e) == <<e.kind, e.is>>
Usable(f, tag, der) ==
    f.exists /\ Readable(f.perm) /\ f.data.pem /\ f.data.tag = tag /\ f.data.der = der
\* the CA has not been generated, or one file of it is not there
CANotFound(fs) ==
    /\ ~fs[CaCertPath].exists \/ ~fs[CaKeyPath].exists
    /\ ~fs[CaCertPath].exists \/ Usable(fs[CaCertPath], "CERTIFICATE", "cert")
    /\ ~fs[CaKeyPath].exists \/ Usable(fs[CaKeyPath], "RSA PRIVATE KEY", "key")
\* the kinds of the errors leaf issuance reports when the files of the CA are
\* there: a file that cannot be read, malformed material, a key that cannot
\* be generated, a certificate that cannot be signed
OtherFailureKinds ==
    {ErrKind(r.err) :
        r \in {e \in {GenerateClientCert([files EXCEPT ![CaCertPath] = cf,
                                                       ![CaKeyPath] = kf],
                                         cn, keySize, FreshKey) :
                         cf \in CaCertFiles \ {NoFile}, kf \in CaKeyFiles \ {NoFile},
                         cn \in ClientNames, keySize \in {0, 2048}} :
                  e.err # NoErr}}
IssuanceFromFiles == {"SignClientCert", "GenerateClientCert"}

\* C20: leaf issuance attempted while the CA cannot be loaded fails, issues no
\* certificate (so none that is self-signed) and writes no file, and when the
\* CA is not found the error is of a kind no other failure of issuance has.
C20_MissingCAIsADistinctError ==
    [][(last'.op \in IssuanceFromFiles
           /\ LoadCA(files, CaCertPath, CaKeyPath).err # NoErr) =>
          /\ last'.err # NoErr
          /\ issued' = issued
          /\ files' = files
          /\ CANotFound(files) => ErrKind(last'.err) \notin OtherFailureKinds]_vars

\* C20 without the kind of the error: leaf issuance attempted while the CA
\* cannot be loaded fails with an error naming the failed load, issues no
\* certificate and writes no file.
C20_NoCANoLeaf ==
    [][(last'.op \in IssuanceFromFiles
           /\ LoadCA(files, CaCertPath, CaKeyPath).err # NoErr) =>
          /\ last'.err # NoErr
          /\ last'.err.text[1] = "failed to load CA"
          /\ issued' = issued
          /\ nkeys' = nkeys
          /\ files' = files]_vars

KeyPaths == {CaKeyPath} \cup {KeyPath(cn) : cn \in ClientNames}

\* C21: every private-key file a call of SaveCAToFiles or SaveCertToFiles
\* has written, a file that was already there with other permission bits
\* included, has permission 0600 exactly.
C21_KeyFilesOwnerOnly ==
    [][\A p \in KeyPaths : files'[p] # files[p] => files'[p].perm = "0600"]_vars

\* a file LoadCA cannot use as tagged tag: it is missing, holds no PEM block,
\* or holds a block of another type
Unusable(f, tag) == ~f.exists \/ ~f.data.pem \/ f.data.tag # tag
UnusableCAFiles(fs) ==
    \/ Unusable(fs[CaCertPath], "CERTIFICATE")
    \/ Unusable(fs[CaKeyPath], "RSA PRIVATE KEY")

\* C22: LoadCA applied to the files SaveCAToFiles has written for a CA
\* returns the certificate and the private key that were saved; LoadCA fails
\* with an error and returns no CA when a file is missing, is no PEM, or
\* carries the wrong type tag.
C22_LoadReversesSave ==
    /\ [](\A ca \in cas :
             LET saved == SaveCAToFiles(files, ca, CaCertPath, CaKeyPath)
                 back == LoadCA(saved.fs, CaCertPath, CaKeyPath)
             IN  saved.err = NoErr =>
                    /\ back.err = NoErr
                    /\ back.out.cert = ca.cert
                    /\ back.out.key = ca.key
                    /\ back.out = ca)
    /\ [](UnusableCAFiles(files) =>
             LET r == LoadCA(files, CaCertPath, CaKeyPath)
             IN  r.err # NoErr /\ r.out = NoKeyPair)
    /\ [][(last'.op = "SaveCAToFiles" /\ last'.err = NoErr) =>
             LET back == LoadCA(files', CaCertPath, CaKeyPath)
             IN  back.err = NoErr /\ back.out \in cas]_vars
    /\ [][(last'.op = "LoadCA" /\ UnusableCAFiles(files)) =>
             last'.err # NoErr /\ loaded' = loaded]_vars

\* a CA generated in this run has been saved and LoadCA has just returned it
C22_Witness ==
    /\ last.op = "LoadCA" /\ last.err = NoErr
    /\ cas \cap loaded # {}

(***************************************************************************)
(* Properties of Run's clock readings (checked under SpecClock)            *)
(***************************************************************************)
Succeeded(i) == pc[i] = "done" /\ result[i] # NoResult
\* the wall clock was not set back between the start of Run and now
NotSetBackSince(t) == ~adjusted \/ t.adjusted

\* C23: for every successful Run the reported elapsed duration is at least 0
\* and the reported timestamp, read back as an instant, is no earlier than
\* the instant at which the Run started.
C23_TimestampNotBeforeStart ==
    \A i \in Invs :
       Succeeded(i) =>
          /\ result[i].ExecutionMs >= 0
          /\ ParseRFC3339(result[i].Timestamp) >= start[i].wall

\* C23 as the code has it: the elapsed duration is at least 0 whatever
\* happens to the wall clock; the timestamp names a whole second, which is no
\* earlier than the second in which the Run started, and so less than a
\* second before the start, unless the wall clock was set back during the Run.
C23_TimestampNotBeforeStartSecond ==
    \A i \in Invs :
       Succeeded(i) =>
          /\ result[i].ExecutionMs >= 0
          /\ NotSetBackSince(start[i]) =>
                /\ result[i].Timestamp >= FormatRFC3339(start[i].wall)
                /\ ParseRFC3339(result[i].Timestamp) > start[i].wall - TicksPerSecond

\* a Run that started inside a second succeeded, with the wall clock never
\* set back, and its timestamp reads back as an instant before its start
C23_Witness ==
    \E i \in Invs :
       /\ Succeeded(i)
       /\ ~adjusted
       /\ ParseRFC3339(result[i].Timestamp) < start[i].wall

(***************************************************************************)
(* Properties of doRequest (checked under SpecClient and SpecClientFair)   *)
(***************************************************************************)
\* C24: the backoff is exponential: the wait before each retry of a request
\* is the wait before the previous retry times one constant greater than 1.
C24_BackoffIsExponential ==
    Len(waits) >= 2 =>
       /\ waits[2] > waits[1]
       /\ \A k \in 1..(Len(waits) - 1) :
             waits[k + 1] * waits[1] = waits[k] * waits[2]

AllFailed == \A k \in 1..Len(outcomes) : outcomes[k] = "error"

C28_CancelEndsBackoff ==
    /\ [][(cpc = "backoff" /\ woken = "ctx" /\ cpc' # cpc) =>
             /\ cpc' = "done"
             /\ cret' = [result |-> 0, err |-> CtxErr]
             /\ outcomes' = outcomes]_vars
    /\ [][(cpc = "backoff" /\ woken = "none" /\ ctxDone' /\ ~ctxDone) =>
             woken' = "ctx"]_vars
    /\ [](cpc = "backoff" /\ woken = "ctx" => ~ENABLED BackoffElapsed)
    /\ (cpc = "backoff" /\ woken = "ctx") ~> (cpc = "done" /\ cret.err = CtxErr)

\* doRequest has returned ctx.Err() after a failed attempt, with retries left
C28_Witness ==
    /\ cpc = "done"
    /\ cret.err = CtxErr
    /\ Len(outcomes) >= 1
    /\ Len(outcomes) <= retries

(***************************************************************************)
(* Properties of the startup of main (checked under SpecMain)              *)
(***************************************************************************)
\* the operations of one type that main has registered
RegisteredOfType(type) == {n \in DOMAIN ops : ops[n].Type = type}

\* C25: actionable tools are off by default.  With ENABLE_ACTIONABLE_TOOLS
\* unset, only read-only operations are registered and offered as tools, and
\* whenever an actionable operation is registered the variable is set to true
\* (in any case of the letters).
C25_ActionableOffByDefault ==
    /\ environ = "" =>
          /\ RegisteredOfType(Actionable) = {}
          /\ actionable = <<>>
          /\ \A t \in tools : ops[t].Type = ReadOnly
    /\ RegisteredOfType(Actionable) # {} => ToLower(environ) = "true"

\* the header map Middleware.Handler hands to the provider for request r
Lowered(r) ==
    [k \in {ToLower(n) : n \in DOMAIN req[r].headers} |->
        req[r].headers[CHOOSE n \in DOMAIN req[r].headers : ToLower(n) = k]]

\* request r went through the enabled middleware and its provider failed
AuthFailed(r) ==
    /\ mwEnabled
    /\ PastMiddleware(r)
    /\ Authenticate(Lowered(r)).err # Nil

\* C26: with the middleware enabled, a request the provider fails to
\* authenticate is answered 401, its wrapped handler is never invoked (no Run
\* is started for it) and no identity is put in its context; the step that
\* rejects it changes nothing of any other request, and a request the provider
\* authenticates goes on with the identity the provider built.
C26_FailedAuthIs401AndStops ==
    /\ [](\A r \in Reqs :
            AuthFailed(r) =>
               /\ req[r].status = 401
               /\ req[r].at = "rejected"
               /\ req[r].ctxAuth = NoAuth
               /\ pc[r] = "idle" /\ call[r] = NoCall)
    /\ [](\A r \in Reqs :
            (mwEnabled /\ PastMiddleware(r) /\ Authenticate(Lowered(r)).err = Nil) =>
               /\ req[r].status = 0
               /\ req[r].at \in {"tool", "run"}
               /\ req[r].ctxAuth = Authenticate(Lowered(r)).ctx)
    /\ [][\A r \in Reqs :
            (req[r].at # "rejected" /\ req'[r].at = "rejected") =>
               /\ \A q \in Reqs \ {r} : req'[q] = req[q]
               /\ UNCHANGED <<execVars, regVars>>]_vars

\* C26 witness: with the middleware enabled one request was rejected with 401
\* and another, which the provider authenticated, ran to the end of Run
C26_Witness ==
    /\ mwEnabled
    /\ \E r, q \in Reqs :
          /\ AuthFailed(r) /\ req[r].status = 401
          /\ req[q].at = "run" /\ req[q].ctxAuth.Source = "LDAP"
          /\ pc[q] = "done"

(***************************************************************************)
(* Properties of Validate and Execute (checked under SpecValidation)       *)
(***************************************************************************)
\* C29: for every capability and every argument map, when Validate returns
\* no error Execute does not panic: each parameter Execute reads with an
\* unchecked string assertion (hostName of DisableMaintenanceMode when a
\* componentName is given among them) is present and a string.
C29_ValidArgumentsNeverPanic ==
    vpc = "executed" => vout.exec # "panic"

(***************************************************************************)
(* Properties of the Registry's lists (checked under SpecSnapshots)        *)
(***************************************************************************)
\* no Register call is under way
Settled == mu.writer = 0

\* the names of the operations of a list, in its order
ListNames(list) == [k \in 1..Len(list) |-> list[k].Name]

\* the goroutine holds a slice that All, ReadOnlyOps or ActionableOps returned
HoldsSlice(p) ==
    rpc[p] = "returned" /\ rcall[p].kind \in {"All", "ReadOnlyOps", "ActionableOps"}

\* C30: after any sequence of Register calls no name is registered twice,
\* every registered operation is in exactly one of the two lists, the one of
\* its Type(), and Count's total is the read-only count plus the actionable
\* count; a slice All, ReadOnlyOps or ActionableOps returned is a snapshot: a
\* later Register leaves it as it is, and a caller writing to it leaves the
\* registry as it is.
C30_ListsPartitionAndSnapshots ==
    /\ [](Settled =>
            /\ \A n \in DOMAIN ops :
                  /\ ops[n].Name = n
                  /\ Cardinality({k \in 1..Len(readonly) : readonly[k].Name = n})
                       = (IF ops[n].Type = ReadOnly THEN 1 ELSE 0)
                  /\ Cardinality({k \in 1..Len(actionable) : actionable[k].Name = n})
                       = (IF ops[n].Type = Actionable THEN 1 ELSE 0)
            /\ Range(ListNames(readonly)) \cup Range(ListNames(actionable))
                  \subseteq DOMAIN ops
            /\ Count.total = Count.ro + Count.act)
    /\ [][\A p \in Procs :
            (HoldsSlice(p) /\ HoldsSlice(p)') =>
               /\ <<ops, readonly, actionable>>' # <<ops, readonly, actionable>> =>
                     rret'[p] = rret[p]
               /\ rret'[p] # rret[p] =>
                     <<ops, readonly, actionable>>' = <<ops, readonly, actionable>>]_vars

\* C30 witness: a goroutine holds the slice ReadOnlyOps returned and has
\* overwritten its only element, while the registry still lists the read-only
\* operation that was registered, beside one actionable operation
C30_Witness ==
    \E p \in Procs :
        /\ HoldsSlice(p) /\ rcall[p].kind = "ReadOnlyOps"
        /\ rret[p].list = <<OpMulti>>
        /\ Settled
        /\ readonly = <<OpOpen>>
        /\ Len(actionable) = 1

====
